---- MODULE Spec2Model ----
(***************************************************************************)
(* Gasless FXRP payments: the GaslessPaymentForwarder contract (the        *)
(* ledger), the relayer engine (GaslessRelayer) that submits signed        *)
(* payment requests to it, and the client signing utility.                 *)
(***************************************************************************)
EXTENDS Integers, Sequences, FiniteSets, TLC

\* ------------------------------------------------------------------ bounds
MaxNonce == 2       \* replay counters are explored up to this value
MaxTime == 2        \* block timestamps are explored up to this value
MaxBatch == 2       \* longest batch handed to executeBatchPayments
MaxTokens == 3      \* largest balance, allowance and minimum fee validateRequest is tried on

\* ------------------------------------------------------- program constants
ChainId == 114                  \* coston2, the default network
OtherChainId == 14              \* flare mainnet: a domain the ledger is not on

\* --------------------------------------------------------------- addresses
Alice == "alice"
Bob == "bob"
RelayerWallet == "relayer"
Deployer == "deployer"          \* the account that deployed the contract
InitialRelayerFee == 1          \* the _relayerFee the contract is deployed with
Senders == {Alice, Bob}
Addr == {Alice, Bob, RelayerWallet}
Forwarder == "forwarder"        \* address of the deployed contract
OtherContract == "otherForwarder"
Unrecoverable == "0xgarbage"    \* what ecrecover yields for a message nobody signed

VARIABLES
    \* GaslessPaymentForwarder storage
    nonces, authorizedRelayers, relayerFee,
    \* FXRP token storage (balances; allowance granted to the forwarder)
    balances, allowances,
    \* Ownable: the owner of the contract
    owner,
    \* chain
    blockTimestamp,
    \* observation of the ledger: one authorization picked at the start, the
    \* number of PaymentExecuted events emitted for it, the number of
    \* PaymentExecuted events per sender, and whether a re-submission of the
    \* observed authorization was reverted after it had been executed
    watched, watchedCount, paid, replayRejected,
    \* observation of the ledger: whether an owner function called by another
    \* address was reverted, and whether a batch was reverted after one of its
    \* items had run
    adminRejected, rolledBack,
    \* GaslessRelayer: the fields set by the constructor (forwarder address,
    \* wallet)
    config,
    \* GaslessRelayer, per request in flight: the position of the call, the
    \* method called, the inbound request and its normalized copy
    pc, mode, request, normalizedRequest,
    \* locals of executePayment: nonce, estimated, gasLimit, and the transaction
    nonce, estimated, gasLimit, tx,
    \* locals of validateRequest: chainTime, and whether it came from the local
    \* clock because the ledger returned no latest block
    chainTime, clockFallback,
    \* what the call returned or threw: its kind, and the result or error
    result, out,
    \* executeBatchPayments: the requests of the call and the one being validated
    batch, item,
    \* the errors the ledger may answer a dry-run, a send or a wait with
    faults,
    \* observation of a request: the steps it performed so far, each with its
    \* success, and whether its deadline had passed on the ledger when it began
    log, expiredAtStart

ledgerVars == <<nonces, authorizedRelayers, relayerFee, balances, allowances,
                owner, blockTimestamp, watched, watchedCount, paid, replayRejected,
                adminRejected, rolledBack>>

batchVars == <<batch, item, faults>>

engineVars == <<pc, mode, request, normalizedRequest, nonce, estimated, gasLimit,
                tx, chainTime, clockFallback, result, out, log, expiredAtStart,
                batchVars, config>>

vars == <<ledgerVars, engineVars>>

\* ------------------------------------------------------------ signatures
\* An EIP-712 signature is modelled by what was signed and by whom: recovery
\* under the same domain and message yields the signer, and anything else
\* yields an address nobody controls.
Domain(chainId, verifyingContract) ==
    [name |-> "GaslessPaymentForwarder", version |-> "1",
     chainId |-> chainId, verifyingContract |-> verifyingContract]

Message(from, to, amount, fee, signedNonce, deadline) ==
    [from |-> from, to |-> to, amount |-> amount, fee |-> fee,
     nonce |-> signedNonce, deadline |-> deadline]

\* a signing utility that signs under its own version of the domain
signPaymentRequestMutVersion(wallet, params) ==
    [form |-> "ok",
     prefix |-> TRUE,
     signer |-> wallet,
     domain |-> [Domain(params.chainId, params.forwarderAddress) EXCEPT !.version = "2"],
     message |-> Message(wallet, params.to, params.amount, params.fee,
                         params.nonce, params.deadline)]

\* client/signer.ts signPaymentRequest: wallet.signTypedData(domain, types, message)
signPaymentRequest(wallet, params) ==
    [form |-> "ok",
     prefix |-> TRUE,
     signer |-> wallet,
     domain |-> Domain(params.chainId, params.forwarderAddress),
     message |-> Message(wallet, params.to, params.amount, params.fee,
                         params.nonce, params.deadline)]

\* a recovery that does not look at the nonce of the signed message
RecoverMutAnyNonce(domain, message, signature) ==
    IF signature.domain = domain
          /\ [signature.message EXCEPT !.nonce = message.nonce] = message
    THEN signature.signer
    ELSE Unrecoverable

\* ECDSA recovery of the signer of `message` under `domain`
Recover(domain, message, signature) ==
    IF signature.domain = domain /\ signature.message = message
    THEN signature.signer
    ELSE Unrecoverable

\* ------------------------------------------------------------------ token
\* a transfer that credits the recipient without debiting the sender
safeTransferFromMutMint(st, from, to, value) ==
    IF ~st.ok THEN st
    ELSE IF st.allowances[from] < value \/ st.balances[from] < value
    THEN [st EXCEPT !.ok = FALSE, !.err = "ERC20TransferFailed"]
    ELSE [st EXCEPT !.allowances[from] = @ - value,
                    !.balances[to] = @ + value]

\* IERC20.transferFrom as used through SafeERC20: reverts unless both the
\* allowance and the balance cover the value
safeTransferFrom(st, from, to, value) ==
    IF ~st.ok THEN st
    ELSE IF st.allowances[from] < value \/ st.balances[from] < value
    THEN [st EXCEPT !.ok = FALSE, !.err = "ERC20TransferFailed"]
    ELSE [st EXCEPT !.allowances[from] = @ - value,
                    !.balances[from] = @ - value,
                    !.balances[to] = @ + value]

\* --------------------------------------------------------------- contract
\* the storage a call works on, with the call's outcome so far
LedgerState ==
    [nonces |-> nonces, authorizedRelayers |-> authorizedRelayers,
     relayerFee |-> relayerFee, balances |-> balances, allowances |-> allowances,
     ok |-> TRUE, err |-> "", events |-> <<>>]

Revert(st, name) == [st EXCEPT !.ok = FALSE, !.err = name]

\* nonces[from] = currentNonce + 1
BumpNonceMutKeep(currentNonce) == currentNonce
BumpNonceMutTwice(currentNonce) == currentNonce + 2
BumpNonce(currentNonce) == currentNonce + 1

\* an authorization as it travels: the six fields of a PaymentRequest
Authorization(from, to, amount, fee, deadline, signature) ==
    [from |-> from, to |-> to, amount |-> amount, fee |-> fee,
     deadline |-> deadline, signature |-> signature]

\* event PaymentExecuted(from, to, amount, fee, nonce), with the authorization
\* that caused it
PaymentExecuted(from, to, amount, fee, usedNonce, deadline, signature) ==
    [from |-> from, to |-> to, amount |-> amount, fee |-> fee, nonce |-> usedNonce,
     authorization |-> Authorization(from, to, amount, fee, deadline, signature)]

\* an executePayment that lets only authorized relayers submit
executePaymentMutAuthorized(st, from, to, amount, fee, deadline, signature, msgSender, now) ==
    IF ~st.authorizedRelayers[msgSender] THEN Revert(st, "UnauthorizedRelayer")
    ELSE IF now > deadline THEN Revert(st, "ExpiredRequest")
    ELSE LET currentNonce == st.nonces[from]
             message == Message(from, to, amount, fee, currentNonce, deadline)
         IN  IF signature.form # "ok" THEN Revert(st, "ECDSAInvalidSignature")
             ELSE IF Recover(Domain(ChainId, Forwarder), message, signature) # from
             THEN Revert(st, "InvalidSignature")
             ELSE LET st1 == [st EXCEPT !.nonces[from] = BumpNonce(currentNonce)]
                      totalAmount == amount + fee
                  IN  IF st1.allowances[from] < totalAmount
                      THEN Revert(st, "InsufficientAllowance")
                      ELSE LET st2 == safeTransferFrom(st1, from, to, amount)
                               st3 == IF fee > 0
                                      THEN safeTransferFrom(st2, from, msgSender, fee)
                                      ELSE st2
                           IN  IF ~st3.ok THEN Revert(st, st3.err)
                               ELSE [st3 EXCEPT !.events = Append(@,
                                        PaymentExecuted(from, to, amount, fee,
                                                 currentNonce, deadline, signature))]

\* GaslessPaymentForwarder.executePayment
executePayment(st, from, to, amount, fee, deadline, signature, msgSender, now) ==
    IF now > deadline THEN Revert(st, "ExpiredRequest")
    ELSE LET currentNonce == st.nonces[from]
             message == Message(from, to, amount, fee, currentNonce, deadline)
         IN  IF signature.form # "ok" THEN Revert(st, "ECDSAInvalidSignature")
             ELSE IF Recover(Domain(ChainId, Forwarder), message, signature) # from
             THEN Revert(st, "InvalidSignature")
             ELSE LET st1 == [st EXCEPT !.nonces[from] = BumpNonce(currentNonce)]
                      totalAmount == amount + fee
                  IN  IF st1.allowances[from] < totalAmount
                      THEN Revert(st, "InsufficientAllowance")
                      ELSE LET st2 == safeTransferFrom(st1, from, to, amount)
                               st3 == IF fee > 0
                                      THEN safeTransferFrom(st2, from, msgSender, fee)
                                      ELSE st2
                           IN  IF ~st3.ok THEN Revert(st, st3.err)
                               ELSE [st3 EXCEPT !.events = Append(@,
                                        PaymentExecuted(from, to, amount, fee,
                                                 currentNonce, deadline, signature))]

\* GaslessPaymentForwarder._executePaymentInternal
_executePaymentInternal(st, req, msgSender, now) ==
    IF now > req.deadline THEN Revert(st, "ExpiredRequest")
    ELSE LET currentNonce == st.nonces[req.from]
             message == Message(req.from, req.to, req.amount, req.fee,
                                currentNonce, req.deadline)
         IN  IF req.signature.form # "ok" THEN Revert(st, "ECDSAInvalidSignature")
             ELSE IF Recover(Domain(ChainId, Forwarder), message, req.signature) # req.from
             THEN Revert(st, "InvalidSignature")
             ELSE LET st1 == [st EXCEPT !.nonces[req.from] = BumpNonce(currentNonce)]
                      totalAmount == req.amount + req.fee
                  IN  IF st1.allowances[req.from] < totalAmount
                      THEN Revert(st, "InsufficientAllowance")
                      ELSE LET st2 == safeTransferFrom(st1, req.from, req.to, req.amount)
                               st3 == IF req.fee > 0
                                      THEN safeTransferFrom(st2, req.from, msgSender, req.fee)
                                      ELSE st2
                           IN  IF ~st3.ok THEN Revert(st, st3.err)
                               ELSE [st3 EXCEPT !.events = Append(@,
                                        PaymentExecuted(req.from, req.to, req.amount,
                                            req.fee, currentNonce, req.deadline,
                                            req.signature))]

\* the loop of executeBatchPayments from item i on
RECURSIVE BatchLoop(_, _, _, _, _)
BatchLoop(st, requests, i, msgSender, now) ==
    IF i > Len(requests) \/ ~st.ok THEN st
    ELSE BatchLoop(_executePaymentInternal(st, requests[i], msgSender, now),
                   requests, i + 1, msgSender, now)

\* a batch that keeps what ran before the failing item
executeBatchPaymentsMutPartial(st, requests, msgSender, now) ==
    BatchLoop(st, requests, 1, msgSender, now)

\* GaslessPaymentForwarder.executeBatchPayments: one failing item reverts the
\* whole transaction
executeBatchPayments(st, requests, msgSender, now) ==
    LET res == BatchLoop(st, requests, 1, msgSender, now)
    IN  IF res.ok THEN res ELSE Revert(st, res.err)

\* ---------------------------------------------------- the authorizations
Amounts == {1, 2}
Fees == {0, 1}
Deadlines == {1, MaxTime}
SignedNonces == 0 .. (MaxNonce - 1)
Peer(a) == IF a = Alice THEN Bob ELSE Alice

\* an authorization built with the signing utility: `wallet` signs, `from` is
\* the sender the request claims
SignedRequest(wallet, from, to, amount, fee, deadline, signedNonce, chainId, forwarder) ==
    Authorization(from, to, amount, fee, deadline,
        signPaymentRequest(wallet,
            [forwarderAddress |-> forwarder, to |-> to, amount |-> amount,
             fee |-> fee, nonce |-> signedNonce, deadline |-> deadline,
             chainId |-> chainId]))

\* client/signer.ts createPaymentRequest: the request a wallet builds from
\* the chain id and the nonce it reads from the ledger
createPaymentRequest(wallet, forwarderAddress, to, amount, fee, deadline) ==
    SignedRequest(wallet, wallet, to, amount, fee, deadline, nonces[wallet],
                  ChainId, forwarderAddress)

\* well-signed authorizations of one sender
ValidRequests(from, recipients, amounts, fees, deadlines, signedNonces) ==
    { SignedRequest(from, from, to, am, fe, d, n, ChainId, Forwarder) :
        to \in recipients, am \in amounts, fe \in fees,
        d \in deadlines, n \in signedNonces }

\* authorizations that must never execute: signed by somebody else, for
\* another network, for another contract, or with an unparseable signature
InvalidRequests(from) ==
    LET good == SignedRequest(from, from, Peer(from), 1, 1, MaxTime, 0, ChainId, Forwarder)
    IN  { SignedRequest(Peer(from), from, Peer(from), 1, 1, MaxTime, 0, ChainId, Forwarder),
          SignedRequest(from, from, Peer(from), 1, 1, MaxTime, 0, OtherChainId, Forwarder),
          SignedRequest(from, from, Peer(from), 1, 1, MaxTime, 0, ChainId, OtherContract),
          [good EXCEPT !.amount = 2],
          [good EXCEPT !.signature.form = "unparseable"] }

\* what the observed authorization is drawn from
WatchedRequests ==
    ValidRequests(Alice, {Bob}, Amounts, Fees, Deadlines, SignedNonces)
        \cup InvalidRequests(Alice)

\* the authorizations other submitters bring to the ledger
CompetingRequests ==
    ValidRequests(Alice, {Bob}, {1}, {1}, {MaxTime}, SignedNonces)
        \cup ValidRequests(Bob, {Alice}, {1}, {1}, {MaxTime}, {0})

Callers == {RelayerWallet, Bob}

\* ---------------------------------------------------------- ledger steps
\* the block timestamp advances
Tick ==
    /\ blockTimestamp < MaxTime
    /\ blockTimestamp' = blockTimestamp + 1
    /\ UNCHANGED <<nonces, authorizedRelayers, relayerFee, balances, allowances,
                   owner, watched, watchedCount, paid, replayRejected,
                   adminRejected, rolledBack>>

\* IERC20.approve(forwarder, value) by a token holder
Approve(holder, value) ==
    /\ allowances' = [allowances EXCEPT ![holder] = value]
    /\ UNCHANGED <<nonces, authorizedRelayers, relayerFee, balances, owner,
                   blockTimestamp, watched, watchedCount, paid, replayRejected,
                   adminRejected, rolledBack>>

\* the PaymentExecuted events of one sender, and those of one authorization
PaidBy(events, a) == Cardinality({i \in DOMAIN events : events[i].from = a})
ExecutionsOf(events, a) == Cardinality({i \in DOMAIN events : events[i].authorization = a})

\* the effect of one mined transaction on the ledger, and what is observed;
\* `progress` tells whether an item of the call had run when it reverted
Commit(res, submitted, progress) ==
    /\ \A a \in Addr : res.nonces[a] <= MaxNonce
    /\ nonces' = res.nonces
    /\ balances' = res.balances
    /\ allowances' = res.allowances
    /\ paid' = [a \in Addr |->
                  paid[a] + PaidBy(res.events, a)]
    /\ watchedCount' = watchedCount
                  + ExecutionsOf(res.events, watched)
    /\ replayRejected' = (replayRejected
                  \/ (watchedCount >= 1 /\ ~res.ok /\ watched \in submitted))
    /\ rolledBack' = (rolledBack \/ (~res.ok /\ progress))
    /\ UNCHANGED <<authorizedRelayers, relayerFee, owner, blockTimestamp, watched,
                   adminRejected>>

\* a transaction calling executePayment, sent by anybody, is mined
MineExecutePayment(a, caller) ==
    Commit(executePayment(LedgerState, a.from, a.to, a.amount, a.fee, a.deadline,
                          a.signature, caller, blockTimestamp), {a}, FALSE)

\* whether the loop of executeBatchPayments ran an item before it stopped
Progress(requests, caller) ==
    BatchLoop(LedgerState, requests, 1, caller, blockTimestamp).nonces # nonces

\* a transaction calling executeBatchPayments, sent by anybody, is mined
MineExecuteBatch(requests, caller) ==
    Commit(executeBatchPayments(LedgerState, requests, caller, blockTimestamp),
           {requests[i] : i \in DOMAIN requests}, Progress(requests, caller))

\* a modifier that lets every caller through
onlyOwnerMutAnyone(msgSender) == TRUE

\* Ownable.onlyOwner, the modifier of the owner functions
onlyOwner(msgSender) == msgSender = owner

\* GaslessPaymentForwarder.setRelayerAuthorization (lines 265-271); a call by
\* another address than the owner reverts
setRelayerAuthorization(msgSender, relayer, authorized) ==
    /\ IF onlyOwner(msgSender)
       THEN /\ authorizedRelayers' = [authorizedRelayers EXCEPT ![relayer] = authorized]
            /\ UNCHANGED adminRejected
       ELSE /\ adminRejected' = TRUE
            /\ UNCHANGED authorizedRelayers
    /\ UNCHANGED <<nonces, relayerFee, balances, allowances, owner, blockTimestamp,
                   watched, watchedCount, paid, replayRejected, rolledBack>>

\* GaslessPaymentForwarder.setRelayerFee (lines 277-280)
setRelayerFee(msgSender, _relayerFee) ==
    /\ IF onlyOwner(msgSender)
       THEN /\ relayerFee' = _relayerFee
            /\ UNCHANGED adminRejected
       ELSE /\ adminRejected' = TRUE
            /\ UNCHANGED relayerFee
    /\ UNCHANGED <<nonces, authorizedRelayers, balances, allowances, owner,
                   blockTimestamp, watched, watchedCount, paid, replayRejected,
                   rolledBack>>

\* Ownable.transferOwnership, which the contract inherits
transferOwnership(msgSender, newOwner) ==
    /\ IF onlyOwner(msgSender)
       THEN /\ owner' = newOwner
            /\ UNCHANGED adminRejected
       ELSE /\ adminRejected' = TRUE
            /\ UNCHANGED owner
    /\ UNCHANGED <<nonces, authorizedRelayers, relayerFee, balances, allowances,
                   blockTimestamp, watched, watchedCount, paid, replayRejected,
                   rolledBack>>

BatchesOf(S) == UNION { [1 .. n -> S] : n \in 1 .. MaxBatch }

\* ------------------------------------------------------------- relayer
Requests == {"r1"}
None == 0 - 1                    \* a local that holds no value yet
NoRequest == Authorization("", "", 0, 0, 0, [form |-> "none"])
NoOutcome == [success |-> FALSE, phase |-> "none"]
PerItemGas == 100000             \* the fixed per-item gas allowance of a batch
GasEstimates == {21000, 54321}   \* what eth_estimateGas may answer

\* the steps of executePayment, in program order
StepOrder ==
    <<"normalize", "getNetwork", "getNonce", "verify", "getBlock", "fxrp",
      "decimals", "balanceOf", "allowance", "relayerFee", "staticCall",
      "recheck", "estimateGas", "send", "wait">>

ExpiredMutStrict(deadline, time) == deadline < time
\* validateRequest: deadline <= chainTime
Expired(deadline, time) == deadline <= time

InsufficientBalanceMutLe(balance, amount, fee) == balance <= amount + fee
\* validateRequest: balance < totalRequired
InsufficientBalance(balance, amount, fee) == balance < amount + fee

InsufficientAllowanceMutLe(allowance, amount, fee) == allowance <= amount + fee
\* validateRequest: allowance < totalRequired
InsufficientAllowance(allowance, amount, fee) == allowance < amount + fee

\* validateRequest: BigInt(fee) < minFee
FeeTooLow(fee, minFee) == fee < minFee

GasLimitMutNoBuffer(e) == e
\* executePayment: gasLimit = (estimated * 130n) / 100n
GasLimit(e) == (e * 130) \div 100

\* executePayment, lines 113-131: the normalized copy of the inbound request,
\* whose signature carries the 0x prefix
Normalize(req) ==
    [from |-> req.from, to |-> req.to, amount |-> req.amount, fee |-> req.fee,
     deadline |-> req.deadline,
     signature |-> IF req.signature.prefix THEN req.signature
                   ELSE [req.signature EXCEPT !.prefix = TRUE]]

\* values of an inbound request that do not parse: a string that is no
\* address, and a string that is no number (Number() makes it NaN, BigInt()
\* throws on it)
BadAddress == "not-an-address"
NaN == 0 - 2
IsAddress(a) == a # BadAddress
IsNumber(x) == x >= 0

\* executePayment, lines 113-116: ethers.getAddress and BigInt throw;
\* Number(request.deadline) does not
Unparseable(req) ==
    \/ ~IsAddress(req.from) \/ ~IsAddress(req.to)
    \/ ~IsNumber(req.amount) \/ ~IsNumber(req.fee)

\* executePayment, line 119: sig.length < 130
SignatureTooShort(signature) == signature.form = "short"

\* recoverTypedDataAddress throws on a signature it cannot parse
SignatureUnparseable(signature) == signature.form # "ok"

Terminal(r) == pc[r] \in {"done", "failed"}

\* ------------------------------------------------------ failure diagnosis
\* An error object of the provider: its message, the reason string of a
\* revert with a message, the name of a custom error the provider already
\* decoded (err.revert.name), and the raw revert data.
NoData == ""
KnownData == "0x:ExpiredRequest()"  \* data the contract's interface decodes
UnknownData == "0xdeadbeef"      \* hex data of no error of the contract
NonHexData == "garbage"          \* data that does not start with 0x
RawMessage == "execution reverted"

Fault(reason, revertName, data) ==
    [message |-> RawMessage, reason |-> reason, revertName |-> revertName,
     data |-> data]

PlainFault == Fault("", "", NoData)

Faults ==
    { Fault(reason, revertName, data) :
        reason \in {"", "transfer amount exceeds balance"},
        revertName \in {"", "InvalidSignature"},
        data \in {NoData, KnownData, UnknownData, NonHexData} }

StartsWith0x(data) == data \in {KnownData, UnknownData}

\* iface.parseError(data): the name of the contract's error, or nothing
parseError(data) == IF data = KnownData THEN "ExpiredRequest" ELSE ""

\* the text `Contract reverted: ${name}`, and a raw message
ContractReverted(name) == [form |-> "Contract reverted", text |-> name]
Raw(message) == [form |-> "raw", text |-> message]

\* parseRevertReason(err) (lines 382-401)
parseRevertReason(err) ==
    IF err.revertName # "" THEN ContractReverted(err.revertName)
    ELSE IF err.data # NoData /\ StartsWith0x(err.data) /\ parseError(err.data) # ""
    THEN ContractReverted(parseError(err.data))
    ELSE Raw(err.message)

\* the error a call throws: the stage it names, its message, the note on the
\* calldata of the fetched transaction, and the transaction of the explorer hint
Error(phase, msg, note, txHash) ==
    [success |-> FALSE, phase |-> phase, msg |-> msg, note |-> note,
     txHash |-> txHash]

\* an error whose message is fixed by the step that throws it
PlainError(kind) == Error(kind, Raw(kind), "", "")

\* the dry-run's own message (lines 183-188): err.reason, else the raw data,
\* else the message
simulationReason(err) ==
    IF err.reason # "" THEN [form |-> "reason", text |-> err.reason]
    ELSE IF err.data # NoData THEN [form |-> "revert data", text |-> err.data]
    ELSE Raw(err.message)

\* enrichRevertError(err, phase, txHash) (lines 344-354)
enrichRevertError(err, phase, txHash) ==
    Error(phase, parseRevertReason(err), "", txHash)

\* what provider.getTransaction(txHash) may do
Fetches == {"throws", "null", "empty", "calldata"}

\* an asynchronous diagnosis that gives up when the fetch fails
enrichRevertErrorAsyncMutMask(err, phase, txHash, fetch) ==
    IF fetch = "throws" THEN Error("getTransaction", Raw("fetch failed"), "", txHash)
    ELSE Error(phase, parseRevertReason(err),
               IF fetch \in {"null", "empty"} THEN "TX had no calldata"
               ELSE "calldata length", txHash)

\* enrichRevertErrorAsync(err, phase, txHash) (lines 359-380)
enrichRevertErrorAsync(err, phase, txHash, fetch) ==
    Error(phase, parseRevertReason(err),
          IF fetch = "throws" THEN ""
          ELSE IF fetch \in {"null", "empty"} THEN "TX had no calldata"
          ELSE "calldata length",
          txHash)

\* the hash of the transaction request r sent, and the receipts tx.wait()
\* may return for it: with gasUsed, without it, or none at all
TxHash(r) == <<"0xhash", r>>
Receipts == {[blockNumber |-> "7", gasUsed |-> "48211"],
             [blockNumber |-> "7", gasUsed |-> "omitted"],
             [blockNumber |-> "omitted", gasUsed |-> "omitted"]}

\* the result object of executePayment (lines 247-252)
ExecuteResult(txHash, receipt) ==
    [success |-> TRUE,
     transactionHash |-> txHash,
     blockNumber |-> IF receipt.blockNumber = "omitted" THEN "null"
                     ELSE receipt.blockNumber,
     gasUsed |-> IF receipt.gasUsed = "omitted" THEN "0" ELSE receipt.gasUsed]

\* the result object of executeBatchPayments (lines 283-289)
BatchExecuteResult(txHash, receipt, requests) ==
    [success |-> TRUE,
     transactionHash |-> txHash,
     blockNumber |-> IF receipt.blockNumber = "omitted" THEN "null"
                     ELSE receipt.blockNumber,
     gasUsed |-> IF receipt.gasUsed = "omitted" THEN "0" ELSE receipt.gasUsed,
     paymentsProcessed |-> Len(requests)]

\* a step of request r completes and the call moves on to `next`
Advance(r, step, next) ==
    /\ pc' = [pc EXCEPT ![r] = next]
    /\ log' = [log EXCEPT ![r] = Append(@, [step |-> step, ok |-> TRUE])]
    /\ UNCHANGED <<result, out>>

\* contract calls made with the fields of the inbound request as they came
ArgumentsMutInbound(r) == request[r]

\* the arguments executePayment calls the contract with: its locals from, to,
\* amount, fee, deadline and signature (lines 113-122), of which
\* normalizedRequest is built
Arguments(r) == normalizedRequest[r]

\* a contract call of request r with the arguments `args` completes and the
\* call moves on to `next`
AdvanceWith(r, step, next, args) ==
    /\ pc' = [pc EXCEPT ![r] = next]
    /\ log' = [log EXCEPT ![r] = Append(@, [step |-> step, ok |-> TRUE, args |-> args])]
    /\ UNCHANGED <<result, out>>

\* a step of request r throws the error `error` of kind `kind`
ThrowError(r, step, kind, error) ==
    /\ pc' = [pc EXCEPT ![r] = "failed"]
    /\ log' = [log EXCEPT ![r] = Append(@, [step |-> step, ok |-> FALSE])]
    /\ result' = [result EXCEPT ![r] = kind]
    /\ out' = [out EXCEPT ![r] = error]

\* a dry-run, estimate, send or wait of request r fails with the provider's
\* error `err` and throws `error`; the log keeps the provider's error and
\* what the fetch of the transaction did
ThrowDiagnosed(r, step, kind, error, err, fetch) ==
    /\ pc' = [pc EXCEPT ![r] = "failed"]
    /\ log' = [log EXCEPT ![r] =
                 Append(@, [step |-> step, ok |-> FALSE, err |-> err, fetch |-> fetch])]
    /\ result' = [result EXCEPT ![r] = kind]
    /\ out' = [out EXCEPT ![r] = error]

\* a failing step that leaves the call where it is
ThrowMutContinue(r, step, kind) ==
    /\ pc' = pc
    /\ log' = [log EXCEPT ![r] = Append(@, [step |-> step, ok |-> FALSE])]
    /\ result' = [result EXCEPT ![r] = kind]
    /\ out' = [out EXCEPT ![r] = PlainError(kind)]

\* a step of request r throws `kind` out of the call
Throw(r, step, kind) == ThrowError(r, step, kind, PlainError(kind))

\* a ledger read of request r fails in transport; the error leaves the call
\* as it is
RpcFailure(r, step) == Throw(r, step, "RpcError")

\* a call arrives: the locals of the previous call in this slot are gone
Enter(r, m, req) ==
    /\ pc[r] \in {"idle", "done", "failed"}
    /\ tx[r] # "pending"
    /\ mode' = [mode EXCEPT ![r] = m]
    /\ request' = [request EXCEPT ![r] = req]
    /\ nonce' = [nonce EXCEPT ![r] = None]
    /\ estimated' = [estimated EXCEPT ![r] = None]
    /\ gasLimit' = [gasLimit EXCEPT ![r] = None]
    /\ tx' = [tx EXCEPT ![r] = "none"]
    /\ chainTime' = [chainTime EXCEPT ![r] = None]
    /\ clockFallback' = [clockFallback EXCEPT ![r] = FALSE]
    /\ expiredAtStart' = [expiredAtStart EXCEPT ![r] =
                              IsNumber(req.deadline) /\ req.deadline <= blockTimestamp]
    /\ out' = [out EXCEPT ![r] = NoOutcome]
    /\ UNCHANGED <<faults, config>>

\* executePayment(request), up to its first await (lines 111-134)
CallExecutePayment(r, req) ==
    /\ Enter(r, "executePayment", req)
    /\ batch' = [batch EXCEPT ![r] = <<>>]
    /\ item' = [item EXCEPT ![r] = 0]
    /\ IF Unparseable(req) \/ SignatureTooShort(req.signature)
       THEN /\ pc' = [pc EXCEPT ![r] = "failed"]
            /\ result' = [result EXCEPT ![r] = "MalformedRequest"]
            /\ log' = [log EXCEPT ![r] = <<[step |-> "normalize", ok |-> FALSE]>>]
            /\ normalizedRequest' = [normalizedRequest EXCEPT ![r] = NoRequest]
       ELSE /\ pc' = [pc EXCEPT ![r] = "getNetwork"]
            /\ result' = [result EXCEPT ![r] = "none"]
            /\ log' = [log EXCEPT ![r] = <<[step |-> "normalize", ok |-> TRUE]>>]
            /\ normalizedRequest' = [normalizedRequest EXCEPT ![r] = Normalize(req)]
    /\ UNCHANGED ledgerVars

\* validateRequest(request) called directly, up to its first await (lines 295-299)
CallValidateRequest(r, req) ==
    /\ Enter(r, "validateRequest", req)
    /\ batch' = [batch EXCEPT ![r] = <<>>]
    /\ item' = [item EXCEPT ![r] = 0]
    /\ pc' = [pc EXCEPT ![r] = "getBlock"]
    /\ result' = [result EXCEPT ![r] = "none"]
    /\ log' = [log EXCEPT ![r] = <<>>]
    /\ normalizedRequest' = [normalizedRequest EXCEPT ![r] = req]
    /\ UNCHANGED ledgerVars

\* await this.provider.getNetwork() (line 134)
GetNetwork(r) ==
    /\ pc[r] = "getNetwork"
    /\ \/ Advance(r, "getNetwork", "getNonce")
       \/ RpcFailure(r, "getNetwork")
    /\ UNCHANGED <<ledgerVars, mode, request, normalizedRequest, nonce, estimated,
                   gasLimit, tx, chainTime, clockFallback, expiredAtStart, batchVars, config>>

\* const nonce = await this.forwarder.getNonce(from) (line 135)
GetNonce(r) ==
    /\ pc[r] = "getNonce"
    /\ \/ /\ Advance(r, "getNonce", "verify")
          /\ nonce' = [nonce EXCEPT ![r] = nonces[normalizedRequest[r].from]]
       \/ /\ RpcFailure(r, "getNonce")
          /\ UNCHANGED nonce
    /\ UNCHANGED <<ledgerVars, mode, request, normalizedRequest, estimated,
                   gasLimit, tx, chainTime, clockFallback, expiredAtStart, batchVars, config>>

\* a signature check that accepts whatever parses
VerifySignatureMutLenient(req, chainId, forwarderAddress, currentNonce) ==
    IF SignatureUnparseable(req.signature) \/ ~IsNumber(req.deadline)
    THEN "InvalidSignatureFormat"
    ELSE "ok"

\* the signature check of executePayment (lines 136-168), as a result kind
VerifySignature(req, chainId, forwarderAddress, currentNonce) ==
    IF SignatureUnparseable(req.signature) \/ ~IsNumber(req.deadline)
    THEN "InvalidSignatureFormat"
    ELSE IF Recover(Domain(chainId, forwarderAddress),
                    Message(req.from, req.to, req.amount, req.fee, currentNonce,
                            req.deadline),
                    req.signature) # req.from
    THEN "SignerMismatch"
    ELSE "ok"

\* recoverTypedDataAddress and the comparison with `from` (lines 149-168);
\* validateRequest is entered on success (line 171)
Verify(r) ==
    /\ pc[r] = "verify"
    /\ LET verdict == VerifySignature(normalizedRequest[r], ChainId,
                                      config.forwarderAddress, nonce[r])
       IN  IF verdict = "ok"
           THEN Advance(r, "verify", "getBlock")
           ELSE Throw(r, "verify", verdict)
    /\ UNCHANGED <<ledgerVars, mode, request, normalizedRequest, nonce, estimated,
                   gasLimit, tx, chainTime, clockFallback, expiredAtStart, batchVars, config>>

\* const block = await this.provider.getBlock("latest") and the deadline
\* check (lines 299-305); without a latest block the local clock is used
GetBlock(r) ==
    /\ pc[r] = "getBlock"
    /\ \/ \E fallback \in BOOLEAN, localClock \in 0 .. MaxTime :
            LET time == IF fallback THEN localClock ELSE blockTimestamp
            IN  /\ ~fallback => localClock = 0
                /\ chainTime' = [chainTime EXCEPT ![r] = time]
                /\ clockFallback' = [clockFallback EXCEPT ![r] = fallback]
                /\ IF /\ IsNumber(normalizedRequest[r].deadline)
                      /\ Expired(normalizedRequest[r].deadline, time)
                   THEN Throw(r, "getBlock", "RequestExpired")
                   ELSE Advance(r, "getBlock", "fxrp")
       \/ /\ RpcFailure(r, "getBlock")
          /\ UNCHANGED <<chainTime, clockFallback>>
    /\ UNCHANGED <<ledgerVars, mode, request, normalizedRequest, nonce, estimated,
                   gasLimit, tx, expiredAtStart, batchVars, config>>

\* const fxrpAddress = await this.forwarder.fxrp() (line 308)
Fxrp(r) ==
    /\ pc[r] = "fxrp"
    /\ \/ Advance(r, "fxrp", "decimals")
       \/ RpcFailure(r, "fxrp")
    /\ UNCHANGED <<ledgerVars, mode, request, normalizedRequest, nonce, estimated,
                   gasLimit, tx, chainTime, clockFallback, expiredAtStart, batchVars, config>>

\* const decimals = await fxrp.decimals() (line 310)
Decimals(r) ==
    /\ pc[r] = "decimals"
    /\ \/ Advance(r, "decimals", "balanceOf")
       \/ RpcFailure(r, "decimals")
    /\ UNCHANGED <<ledgerVars, mode, request, normalizedRequest, nonce, estimated,
                   gasLimit, tx, chainTime, clockFallback, expiredAtStart, batchVars, config>>

\* what the items of the batch before the current one take from the sender of
\* the current one
RECURSIVE SpentBefore(_, _)
SpentBefore(r, i) ==
    IF i = 0 THEN 0
    ELSE SpentBefore(r, i - 1)
           + (IF i < item[r] /\ batch[r][i].from = normalizedRequest[r].from
                 /\ IsNumber(batch[r][i].amount) /\ IsNumber(batch[r][i].fee)
              THEN batch[r][i].amount + batch[r][i].fee ELSE 0)

\* a balance from which the earlier items of the batch are taken off
balanceMutRemaining(r) ==
    balances[normalizedRequest[r].from] - SpentBefore(r, Len(batch[r]))

\* const balance = await fxrp.balanceOf(from) (line 313): the ledger's value
\* at the time of the read
balance(r) == balances[normalizedRequest[r].from]

\* const balance = await fxrp.balanceOf(from) and its check (lines 313-319)
BalanceOf(r) ==
    /\ pc[r] = "balanceOf"
    /\ LET req == normalizedRequest[r]
       IN  \/ IF ~IsAddress(req.from) \/ ~IsNumber(req.amount) \/ ~IsNumber(req.fee)
              THEN Throw(r, "balanceOf", "InvalidArgument")
              ELSE IF InsufficientBalance(balance(r), req.amount, req.fee)
              THEN Throw(r, "balanceOf", "InsufficientBalance")
              ELSE Advance(r, "balanceOf", "allowance")
           \/ RpcFailure(r, "balanceOf")
    /\ UNCHANGED <<ledgerVars, mode, request, normalizedRequest, nonce, estimated,
                   gasLimit, tx, chainTime, clockFallback, expiredAtStart, batchVars, config>>

\* const allowance = await fxrp.allowance(from, forwarder) and its check
\* (lines 322-330)
Allowance(r) ==
    /\ pc[r] = "allowance"
    /\ LET req == normalizedRequest[r]
       IN  \/ IF InsufficientAllowance(allowances[req.from], req.amount, req.fee)
              THEN Throw(r, "allowance", "InsufficientAllowance")
              ELSE Advance(r, "allowance", "relayerFee")
           \/ RpcFailure(r, "allowance")
    /\ UNCHANGED <<ledgerVars, mode, request, normalizedRequest, nonce, estimated,
                   gasLimit, tx, chainTime, clockFallback, expiredAtStart, batchVars, config>>

\* a minimum fee remembered from the start of the process
minFeeMutStartup == InitialRelayerFee

\* const minFee = await this.forwarder.relayerFee() (line 333)
minFee == relayerFee

\* const minFee = await this.forwarder.relayerFee() and its check (lines
\* 333-338); validateRequest returns: executePayment goes on to the dry-run
\* and the locals of validateRequest are gone
RelayerFee(r) ==
    /\ pc[r] = "relayerFee"
    /\ \/ /\ FeeTooLow(normalizedRequest[r].fee, minFee)
          /\ Throw(r, "relayerFee", "FeeTooLow")
          /\ UNCHANGED <<chainTime, clockFallback>>
       \/ /\ ~FeeTooLow(normalizedRequest[r].fee, minFee)
          /\ mode[r] = "executePayment"
          /\ Advance(r, "relayerFee", "staticCall")
          /\ chainTime' = [chainTime EXCEPT ![r] = None]
          /\ UNCHANGED clockFallback
       \/ /\ ~FeeTooLow(normalizedRequest[r].fee, minFee)
          /\ mode[r] = "validateRequest"
          /\ pc' = [pc EXCEPT ![r] = "done"]
          /\ log' = [log EXCEPT ![r] = Append(@, [step |-> "relayerFee", ok |-> TRUE])]
          /\ result' = [result EXCEPT ![r] = "valid"]
          /\ UNCHANGED <<chainTime, clockFallback, out>>
       \/ /\ ~FeeTooLow(normalizedRequest[r].fee, minFee)
          /\ mode[r] = "executeBatchPayments"
          /\ Advance(r, "relayerFee",
                     IF item[r] < Len(batch[r]) THEN "getBlock" ELSE "sendBatch")
          /\ chainTime' = [chainTime EXCEPT ![r] = None]
          /\ UNCHANGED clockFallback
       \/ /\ RpcFailure(r, "relayerFee")
          /\ UNCHANGED <<chainTime, clockFallback>>
    /\ IF mode[r] = "executeBatchPayments" /\ pc'[r] = "getBlock"
       THEN /\ item' = [item EXCEPT ![r] = @ + 1]
            /\ normalizedRequest' =
                 [normalizedRequest EXCEPT ![r] = batch[r][item[r] + 1]]
       ELSE UNCHANGED <<item, normalizedRequest>>
    /\ UNCHANGED <<ledgerVars, mode, request, nonce, estimated,
                   gasLimit, tx, expiredAtStart, batch, faults, config>>

\* what the ledger answers to executePayment with the arguments `req`, sent
\* from the relayer's wallet
Execute(req) ==
    executePayment(LedgerState, req.from, req.to, req.amount, req.fee,
                   req.deadline, req.signature, config.wallet, blockTimestamp)

\* what the ledger answers to a simulated executePayment of request r
Simulate(r) == Execute(Arguments(r))

\* await this.forwarder.executePayment.staticCall(...) (lines 174-189)
StaticCall(r) ==
    /\ pc[r] = "staticCall"
    /\ \/ /\ Simulate(r).ok
          /\ AdvanceWith(r, "staticCall", "recheck", Arguments(r))
       \/ \E err \in faults :
             ThrowDiagnosed(r, "staticCall", "SimulationFailed",
                            Error("Contract simulation", simulationReason(err), "", ""),
                            err, "none")
    /\ UNCHANGED <<ledgerVars, mode, request, normalizedRequest, nonce, estimated,
                   gasLimit, tx, chainTime, clockFallback, expiredAtStart, batchVars, config>>

\* const nonceNow = await this.forwarder.getNonce(from) and its comparison
\* with nonce (lines 192-198)
Recheck(r) ==
    /\ pc[r] = "recheck"
    /\ \/ IF nonces[normalizedRequest[r].from] # nonce[r]
          THEN Throw(r, "recheck", "CounterRaceLost")
          ELSE Advance(r, "recheck", "estimateGas")
       \/ RpcFailure(r, "recheck")
    /\ UNCHANGED <<ledgerVars, mode, request, normalizedRequest, nonce, estimated,
                   gasLimit, tx, chainTime, clockFallback, expiredAtStart, batchVars, config>>

\* await this.forwarder.executePayment.estimateGas(...) and the buffer
\* (lines 201-217)
EstimateGas(r) ==
    /\ pc[r] = "estimateGas"
    /\ \/ /\ Simulate(r).ok
          /\ \E e \in GasEstimates :
                /\ estimated' = [estimated EXCEPT ![r] = e]
                /\ gasLimit' = [gasLimit EXCEPT ![r] = GasLimit(e)]
          /\ AdvanceWith(r, "estimateGas", "send", Arguments(r))
       \/ /\ \E err \in faults :
                ThrowDiagnosed(r, "estimateGas", "EstimationFailed",
                               Error("Gas estimation", Raw(err.message), "", ""),
                               err, "none")
          /\ UNCHANGED <<estimated, gasLimit>>
    /\ UNCHANGED <<ledgerVars, mode, request, normalizedRequest, nonce, tx,
                   chainTime, clockFallback, expiredAtStart, batchVars, config>>

\* a send that is tried again when it fails
SendMutRetry(r) ==
    /\ pc[r] = "send"
    /\ \/ /\ AdvanceWith(r, "send", "wait", Arguments(r))
          /\ tx' = [tx EXCEPT ![r] = "pending"]
       \/ /\ pc' = pc
          /\ log' = [log EXCEPT ![r] = Append(@, [step |-> "send", ok |-> FALSE])]
          /\ result' = [result EXCEPT ![r] = "SubmissionFailed"]
          /\ out' = [out EXCEPT ![r] = PlainError("SubmissionFailed")]
          /\ UNCHANGED tx
    /\ UNCHANGED <<ledgerVars, mode, request, normalizedRequest, nonce, estimated,
                   gasLimit, chainTime, clockFallback, expiredAtStart, batchVars, config>>

\* a send that waits until no transaction of another request is pending
SendMutSerial(r) ==
    /\ pc[r] = "send"
    /\ \A other \in DOMAIN tx \ {r} : tx[other] # "pending"
    /\ \/ /\ AdvanceWith(r, "send", "wait", Arguments(r))
          /\ tx' = [tx EXCEPT ![r] = "pending"]
       \/ /\ \E err \in faults :
                ThrowDiagnosed(r, "send", "SubmissionFailed",
                               enrichRevertError(err, "sendTransaction", ""),
                               err, "none")
          /\ UNCHANGED tx
    /\ UNCHANGED <<ledgerVars, mode, request, normalizedRequest, nonce, estimated,
                   gasLimit, chainTime, clockFallback, expiredAtStart, batchVars, config>>

\* tx = await this.forwarder.executePayment(..., { gasLimit }) (lines 220-233)
Send(r) ==
    /\ pc[r] = "send"
    /\ \/ /\ AdvanceWith(r, "send", "wait", Arguments(r))
          /\ tx' = [tx EXCEPT ![r] = "pending"]
       \/ /\ \E err \in faults :
                ThrowDiagnosed(r, "send", "SubmissionFailed",
                               enrichRevertError(err, "sendTransaction", ""),
                               err, "none")
          /\ UNCHANGED tx
    /\ UNCHANGED <<ledgerVars, mode, request, normalizedRequest, nonce, estimated,
                   gasLimit, chainTime, clockFallback, expiredAtStart, batchVars, config>>

\* the arguments of the transaction request r sent
Submitted(r) ==
    LET i == CHOOSE i \in DOMAIN log[r] : log[r][i].step = "send" /\ log[r][i].ok
    IN  log[r][i].args

\* the ledger includes the transaction request r sent: the contract runs, or
\* the transaction runs out of gas and reverts
Mine(r) ==
    /\ tx[r] = "pending"
    /\ \E outOfGas \in BOOLEAN :
         LET res == IF outOfGas THEN Revert(LedgerState, "OutOfGas")
                    ELSE IF mode[r] = "executeBatchPayments"
                    THEN executeBatchPayments(LedgerState, batch[r], config.wallet,
                                              blockTimestamp)
                    ELSE Execute(Submitted(r))
             submitted == IF mode[r] = "executeBatchPayments"
                          THEN {batch[r][i] : i \in DOMAIN batch[r]}
                          ELSE {Submitted(r)}
         IN  /\ Commit(res, submitted,
                       mode[r] = "executeBatchPayments"
                          /\ Progress(batch[r], config.wallet))
             /\ tx' = [tx EXCEPT ![r] = IF res.ok THEN "success" ELSE "reverted"]
    /\ UNCHANGED <<pc, mode, request, normalizedRequest, nonce, estimated, gasLimit,
                   chainTime, clockFallback, result, out, log, expiredAtStart,
                   batchVars, config>>

\* a wait that takes the returned transaction for a confirmation
WaitMutUnconfirmed(r) ==
    /\ pc[r] = "wait"
    /\ pc' = [pc EXCEPT ![r] = "done"]
    /\ log' = [log EXCEPT ![r] = Append(@, [step |-> "wait", ok |-> TRUE])]
    /\ result' = [result EXCEPT ![r] = "success"]
    /\ out' = [out EXCEPT ![r] = ExecuteResult(TxHash(r), [blockNumber |-> "omitted",
                                                           gasUsed |-> "omitted"])]
    /\ UNCHANGED <<ledgerVars, mode, request, normalizedRequest, nonce, estimated,
                   gasLimit, tx, chainTime, clockFallback, expiredAtStart, batchVars, config>>

\* receipt = await tx.wait() and the result (lines 236-252)
Wait(r) ==
    /\ pc[r] = "wait"
    /\ \/ /\ tx[r] = "success"
          /\ pc' = [pc EXCEPT ![r] = "done"]
          /\ log' = [log EXCEPT ![r] = Append(@, [step |-> "wait", ok |-> TRUE])]
          /\ result' = [result EXCEPT ![r] = "success"]
          /\ \E receipt \in Receipts :
                out' = [out EXCEPT ![r] = ExecuteResult(TxHash(r), receipt)]
       \/ \E err \in faults, fetch \in Fetches :
             ThrowDiagnosed(r, "wait", "FinalityWaitFailed",
                            enrichRevertErrorAsync(err, "transaction", TxHash(r), fetch),
                            err, fetch)
    /\ UNCHANGED <<ledgerVars, mode, request, normalizedRequest, nonce, estimated,
                   gasLimit, tx, chainTime, clockFallback, expiredAtStart, batchVars, config>>

\* executeBatchPayments(requests), up to the first await of the first
\* validateRequest (lines 258-264); an empty batch goes straight to the send
CallExecuteBatchPayments(r, requests) ==
    /\ Enter(r, "executeBatchPayments", NoRequest)
    /\ batch' = [batch EXCEPT ![r] = requests]
    /\ item' = [item EXCEPT ![r] = IF requests = <<>> THEN 0 ELSE 1]
    /\ normalizedRequest' =
         [normalizedRequest EXCEPT ![r] = IF requests = <<>> THEN NoRequest
                                          ELSE requests[1]]
    /\ pc' = [pc EXCEPT ![r] = IF requests = <<>> THEN "sendBatch" ELSE "getBlock"]
    /\ result' = [result EXCEPT ![r] = "none"]
    /\ log' = [log EXCEPT ![r] = <<>>]
    /\ UNCHANGED ledgerVars

BatchGasLimitMutFlat(n) == PerItemGas
\* gasLimit: 100000n * BigInt(requests.length) (line 278)
BatchGasLimit(n) == PerItemGas * n

\* values the ABI encoder of the contract call throws on
Unencodable(req) == Unparseable(req) \/ ~IsNumber(req.deadline)

\* tx = await this.forwarder.executeBatchPayments(formattedRequests,
\* { gasLimit }) (lines 267-279); a transaction without gas is not accepted
SendBatch(r) ==
    /\ pc[r] = "sendBatch"
    /\ \/ /\ \E i \in DOMAIN batch[r] : Unencodable(batch[r][i])
          /\ Throw(r, "send", "InvalidArgument")
          /\ UNCHANGED <<tx, gasLimit>>
       \/ /\ \A i \in DOMAIN batch[r] : ~Unencodable(batch[r][i])
          /\ BatchGasLimit(Len(batch[r])) > 0
          /\ Advance(r, "send", "waitBatch")
          /\ gasLimit' = [gasLimit EXCEPT ![r] = BatchGasLimit(Len(batch[r]))]
          /\ tx' = [tx EXCEPT ![r] = "pending"]
       \/ /\ \A i \in DOMAIN batch[r] : ~Unencodable(batch[r][i])
          /\ Throw(r, "send", "SubmissionFailed")
          /\ UNCHANGED <<tx, gasLimit>>
    /\ UNCHANGED <<ledgerVars, mode, request, normalizedRequest, nonce, estimated,
                   chainTime, clockFallback, expiredAtStart, batchVars, config>>

\* receipt = await tx.wait() and the result of the batch (lines 281-289)
WaitBatch(r) ==
    /\ pc[r] = "waitBatch"
    /\ \/ /\ tx[r] = "success"
          /\ pc' = [pc EXCEPT ![r] = "done"]
          /\ log' = [log EXCEPT ![r] = Append(@, [step |-> "wait", ok |-> TRUE])]
          /\ result' = [result EXCEPT ![r] = "success"]
          /\ \E receipt \in Receipts :
                out' = [out EXCEPT ![r] =
                          BatchExecuteResult(TxHash(r), receipt, batch[r])]
       \/ Throw(r, "wait", "FinalityWaitFailed")
    /\ UNCHANGED <<ledgerVars, mode, request, normalizedRequest, nonce, estimated,
                   gasLimit, tx, chainTime, clockFallback, expiredAtStart, batchVars, config>>

\* one step of the engine for request r
EngineStep(r) ==
    \/ GetNetwork(r) \/ GetNonce(r) \/ Verify(r)
    \/ GetBlock(r) \/ Fxrp(r) \/ Decimals(r) \/ BalanceOf(r) \/ Allowance(r)
    \/ RelayerFee(r)
    \/ StaticCall(r) \/ Recheck(r) \/ EstimateGas(r) \/ Send(r) \/ Wait(r)

InitLedgerState(observable) ==
    /\ nonces = [a \in Addr |-> 0]
    /\ authorizedRelayers = [a \in Addr |-> FALSE]
    /\ relayerFee = InitialRelayerFee
    /\ balances = [a \in Addr |-> IF a = Alice THEN 3 ELSE IF a = Bob THEN 1 ELSE 0]
    /\ allowances = [a \in Addr |-> 0]
    /\ blockTimestamp = 0
    /\ watched \in observable
    /\ watchedCount = 0
    /\ paid = [a \in Addr |-> 0]
    /\ replayRejected = FALSE
    /\ owner = Deployer
    /\ adminRejected = FALSE
    /\ rolledBack = FALSE

InitCalls ==
    /\ pc = [r \in Requests |-> "idle"]
    /\ mode = [r \in Requests |-> "none"]
    /\ request = [r \in Requests |-> NoRequest]
    /\ normalizedRequest = [r \in Requests |-> NoRequest]
    /\ nonce = [r \in Requests |-> None]
    /\ estimated = [r \in Requests |-> None]
    /\ gasLimit = [r \in Requests |-> None]
    /\ tx = [r \in Requests |-> "none"]
    /\ chainTime = [r \in Requests |-> None]
    /\ clockFallback = [r \in Requests |-> FALSE]
    /\ result = [r \in Requests |-> "none"]
    /\ log = [r \in Requests |-> <<>>]
    /\ expiredAtStart = [r \in Requests |-> FALSE]
    /\ out = [r \in Requests |-> NoOutcome]
    /\ batch = [r \in Requests |-> <<>>]
    /\ item = [r \in Requests |-> 0]
    /\ config = [forwarderAddress |-> Forwarder, wallet |-> RelayerWallet]

\* a provider whose errors carry nothing but a message
InitEngine == InitCalls /\ faults = {PlainFault}

NextLedger ==
    \/ Tick
    \/ \E holder \in Senders, value \in {0, 3} : Approve(holder, value)
    \/ \E a \in CompetingRequests \cup {watched}, caller \in Callers :
          MineExecutePayment(a, caller)
    \/ \E requests \in BatchesOf(CompetingRequests \cup {watched}) :
          MineExecuteBatch(requests, RelayerWallet)

\* the ledger alone: transactions of any submitter, in any order
InitLedger == InitLedgerState(WatchedRequests) /\ InitEngine

SpecLedger == InitLedger /\ [][NextLedger /\ UNCHANGED engineVars]_vars

\* ------------------------------------------- the contract and its owner
\* the authorizations brought to the contract: payments of Alice and of Bob
\* to either of them, with and without a fee, one that is expired early and
\* one signed by somebody else
ContractRequests ==
    ValidRequests(Alice, Senders, {1}, Fees, {MaxTime}, SignedNonces)
        \cup ValidRequests(Bob, Senders, {1}, {1}, {MaxTime}, {0})
        \cup ValidRequests(Alice, {Bob}, {2}, {1}, {1}, {0})
        \cup {SignedRequest(Bob, Alice, Bob, 1, 1, MaxTime, 0, ChainId, Forwarder)}

\* the authorizations batches are made of
ContractBatchItems ==
    ValidRequests(Alice, {Bob}, {1}, {1}, {MaxTime}, SignedNonces)
        \cup ValidRequests(Alice, {Bob}, {2}, {1}, {1}, {0})
        \cup {SignedRequest(Bob, Alice, Bob, 1, 1, MaxTime, 0, ChainId, Forwarder)}

\* who calls the owner functions, and the fees they set
AdminCallers == {Deployer, Bob}
FeeSettings == {1, 2}

InitContract ==
    /\ nonces = [a \in Addr |-> 0]
    /\ authorizedRelayers = [a \in Addr |-> FALSE]
    /\ relayerFee = InitialRelayerFee
    /\ balances = [a \in Addr |-> IF a = Alice THEN 3 ELSE IF a = Bob THEN 2 ELSE 0]
    /\ allowances = [a \in Addr |-> IF a = Bob THEN 3 ELSE 0]
    /\ blockTimestamp = 0
    /\ watched = SignedRequest(Alice, Alice, Bob, 1, 0, MaxTime, 0, ChainId, Forwarder)
    /\ watchedCount = 0
    /\ paid = [a \in Addr |-> 0]
    /\ replayRejected = FALSE
    /\ owner = Deployer
    /\ adminRejected = FALSE
    /\ rolledBack = FALSE
    /\ InitEngine

NextContract ==
    \/ Tick
    \/ \E value \in {1, 3} : Approve(Alice, value)
    \/ \E a \in ContractRequests, caller \in Callers : MineExecutePayment(a, caller)
    \/ \E requests \in BatchesOf(ContractBatchItems) :
          MineExecuteBatch(requests, RelayerWallet)
    \/ \E caller \in AdminCallers, fee \in FeeSettings : setRelayerFee(caller, fee)
    \/ \E caller \in AdminCallers, authorized \in BOOLEAN :
          setRelayerAuthorization(caller, RelayerWallet, authorized)
    \/ \E caller \in AdminCallers : transferOwnership(caller, Bob)

SpecContract == InitContract /\ [][NextContract /\ UNCHANGED engineVars]_vars


\* ------------------------------------------------- the relayer on the ledger
\* authorizations whose signature is shorter than 130 characters
ShortRequests ==
    { [a EXCEPT !.signature.form = "short"] :
        a \in ValidRequests(Alice, {Bob}, {1}, {1}, {MaxTime}, {0}) }

\* authorizations whose signature comes without the 0x prefix
UnprefixedRequests ==
    { [a EXCEPT !.signature.prefix = FALSE] :
        a \in ValidRequests(Alice, {Bob}, {1}, {1}, {MaxTime}, {0}) }

\* authorizations with a field that does not parse: the sender, the amount,
\* the deadline
MalformedRequests ==
    LET good == SignedRequest(Alice, Alice, Bob, 1, 1, MaxTime, 0, ChainId, Forwarder)
    IN  { [good EXCEPT !.from = BadAddress],
          [good EXCEPT !.amount = NaN],
          [good EXCEPT !.deadline = NaN] }

\* what callers hand to the relayer
InboundRequests ==
    ValidRequests(Alice, {Bob}, {1}, {1}, Deadlines, SignedNonces)
        \cup UnprefixedRequests \cup MalformedRequests
        \cup ValidRequests(Alice, {Bob}, {3}, {1}, {MaxTime}, {0})
        \cup ValidRequests(Alice, {Bob}, {1}, {0}, {MaxTime}, {0})
        \cup InvalidRequests(Alice) \cup ShortRequests

\* what other submitters send to the ledger while the relayer works
OtherSubmissions ==
    {watched} \cup ValidRequests(Alice, {Bob}, {1}, {0}, {MaxTime}, SignedNonces)

Init ==
    /\ InitLedgerState(ValidRequests(Alice, {Bob}, {1}, {1}, {MaxTime}, SignedNonces))
    /\ InitEngine

Next ==
    \/ \E r \in Requests, req \in InboundRequests : CallExecutePayment(r, req)
    \/ \E r \in Requests : EngineStep(r)
    \/ \E r \in Requests : Mine(r)
    \/ Tick /\ UNCHANGED engineVars
    \/ \E value \in {0, 3} : Approve(Alice, value) /\ UNCHANGED engineVars
    \/ \E a \in OtherSubmissions :
          MineExecutePayment(a, Bob) /\ UNCHANGED engineVars

Spec == Init /\ [][Next]_vars

\* ------------------------------------------------ batches through the relayer
\* what the requests of a batch are drawn from: well-signed ones, one whose
\* signature is somebody else's, and malformed ones
BatchItems ==
    ValidRequests(Alice, {Bob}, {1}, {1}, {MaxTime}, SignedNonces)
        \cup {SignedRequest(Bob, Alice, Bob, 1, 1, MaxTime, 0, ChainId, Forwarder)}
        \cup MalformedRequests

\* what callers hand to executeBatchPayments: the empty batch included
BatchInputs == {<<>>} \cup BatchesOf(BatchItems)

\* what callers hand to executePayment while batches are tried
SingleInputs ==
    MalformedRequests \cup ShortRequests
        \cup ValidRequests(Alice, {Bob}, {1}, {1}, {MaxTime}, {0})

InitBatch ==
    /\ nonces = [a \in Addr |-> 0]
    /\ authorizedRelayers = [a \in Addr |-> FALSE]
    /\ relayerFee = InitialRelayerFee
    /\ balances = [a \in Addr |-> IF a = Alice THEN 2 * MaxBatch ELSE 0]
    /\ allowances = [a \in Addr |-> IF a = Alice THEN 2 * MaxBatch ELSE 0]
    /\ blockTimestamp = 0
    /\ watched = SignedRequest(Alice, Alice, Bob, 1, 1, MaxTime, 0, ChainId, Forwarder)
    /\ watchedCount = 0
    /\ paid = [a \in Addr |-> 0]
    /\ replayRejected = FALSE
    /\ owner = Deployer
    /\ adminRejected = FALSE
    /\ rolledBack = FALSE
    /\ InitEngine

NextBatch ==
    \/ \E r \in Requests, requests \in BatchInputs :
          CallExecuteBatchPayments(r, requests)
    \/ \E r \in Requests, req \in SingleInputs : CallExecutePayment(r, req)
    \/ \E r \in Requests : EngineStep(r)
    \/ \E r \in Requests : SendBatch(r)
    \/ \E r \in Requests : WaitBatch(r)
    \/ \E r \in Requests : Mine(r)
    \/ Tick /\ UNCHANGED engineVars
    \/ MineExecutePayment(watched, Bob) /\ UNCHANGED engineVars

SpecBatch == InitBatch /\ [][NextBatch]_vars

\* -------------------------------------------------- failures and their diagnosis
\* one well-signed request through executePayment, on a provider whose
\* errors come in every shape, while another submitter may use the nonce
InitDiagnose ==
    /\ nonces = [a \in Addr |-> 0]
    /\ authorizedRelayers = [a \in Addr |-> FALSE]
    /\ relayerFee = InitialRelayerFee
    /\ balances = [a \in Addr |-> IF a = Alice THEN 3 ELSE 0]
    /\ allowances = [a \in Addr |-> IF a = Alice THEN 3 ELSE 0]
    /\ blockTimestamp = 0
    /\ watched = SignedRequest(Alice, Alice, Bob, 1, 1, MaxTime, 0, ChainId, Forwarder)
    /\ watchedCount = 0
    /\ paid = [a \in Addr |-> 0]
    /\ replayRejected = FALSE
    /\ owner = Deployer
    /\ adminRejected = FALSE
    /\ rolledBack = FALSE
    /\ InitCalls
    /\ faults = Faults

NextDiagnose ==
    \/ \E r \in Requests : pc[r] = "idle" /\ CallExecutePayment(r, watched)
    \/ \E r \in Requests : EngineStep(r)
    \/ \E r \in Requests : Mine(r)
    \/ MineExecutePayment(watched, Bob) /\ UNCHANGED engineVars

SpecDiagnose == InitDiagnose /\ [][NextDiagnose]_vars

\* ------------------------------------------- one request after another
\* executePayment called again and again while the ledger changes between
\* the calls: time passes, the allowance is revoked and granted, the owner
\* changes the minimum fee; nobody else submits payments
FreshInputs == ValidRequests(Alice, {Bob}, {1}, {1}, {MaxTime}, SignedNonces)

InitFresh ==
    /\ nonces = [a \in Addr |-> 0]
    /\ authorizedRelayers = [a \in Addr |-> FALSE]
    /\ relayerFee = InitialRelayerFee
    /\ balances = [a \in Addr |-> IF a = Alice THEN 4 ELSE 0]
    /\ allowances = [a \in Addr |-> IF a = Alice THEN 3 ELSE 0]
    /\ blockTimestamp = 0
    /\ watched = SignedRequest(Alice, Alice, Bob, 1, 1, MaxTime, 0, ChainId, Forwarder)
    /\ watchedCount = 0
    /\ paid = [a \in Addr |-> 0]
    /\ replayRejected = FALSE
    /\ owner = Deployer
    /\ adminRejected = FALSE
    /\ rolledBack = FALSE
    /\ InitEngine

NextFresh ==
    \/ \E r \in Requests, req \in FreshInputs : CallExecutePayment(r, req)
    \/ \E r \in Requests : EngineStep(r)
    \/ \E r \in Requests : Mine(r)
    \/ Tick /\ UNCHANGED engineVars
    \/ \E value \in {0, 3} : Approve(Alice, value) /\ UNCHANGED engineVars
    \/ \E fee \in FeeSettings : setRelayerFee(Deployer, fee) /\ UNCHANGED engineVars

SpecFresh == InitFresh /\ [][NextFresh]_vars

\* ------------------------------------------- requests in flight together
\* two calls of executePayment in flight at once, for the same sender; every
\* await of a call returns or fails once the ledger has answered
Slots == {"r1", "r2"}

InitConcurrent ==
    /\ nonces = [a \in Addr |-> 0]
    /\ authorizedRelayers = [a \in Addr |-> FALSE]
    /\ relayerFee = InitialRelayerFee
    /\ balances = [a \in Addr |-> IF a = Alice THEN 4 ELSE 0]
    /\ allowances = [a \in Addr |-> IF a = Alice THEN 4 ELSE 0]
    /\ blockTimestamp = 0
    /\ watched = SignedRequest(Alice, Alice, Bob, 1, 1, MaxTime, 0, ChainId, Forwarder)
    /\ watchedCount = 0
    /\ paid = [a \in Addr |-> 0]
    /\ replayRejected = FALSE
    /\ owner = Deployer
    /\ adminRejected = FALSE
    /\ rolledBack = FALSE
    /\ pc = [r \in Slots |-> "idle"]
    /\ mode = [r \in Slots |-> "none"]
    /\ request = [r \in Slots |-> NoRequest]
    /\ normalizedRequest = [r \in Slots |-> NoRequest]
    /\ nonce = [r \in Slots |-> None]
    /\ estimated = [r \in Slots |-> None]
    /\ gasLimit = [r \in Slots |-> None]
    /\ tx = [r \in Slots |-> "none"]
    /\ chainTime = [r \in Slots |-> None]
    /\ clockFallback = [r \in Slots |-> FALSE]
    /\ result = [r \in Slots |-> "none"]
    /\ log = [r \in Slots |-> <<>>]
    /\ expiredAtStart = [r \in Slots |-> FALSE]
    /\ out = [r \in Slots |-> NoOutcome]
    /\ batch = [r \in Slots |-> <<>>]
    /\ item = [r \in Slots |-> 0]
    /\ config = [forwarderAddress |-> Forwarder, wallet |-> RelayerWallet]
    /\ faults = {PlainFault}

NextConcurrent ==
    \/ \E r \in Slots, req \in FreshInputs : pc[r] = "idle" /\ CallExecutePayment(r, req)
    \/ \E r \in Slots : EngineStep(r)
    \/ \E r \in Slots : Mine(r)

SpecConcurrent ==
    /\ InitConcurrent /\ [][NextConcurrent]_vars
    /\ \A r \in Slots : WF_vars(EngineStep(r))

\* ------------------------------------------- validateRequest on a ledger state
\* what validateRequest is called with: well-signed and forged requests
ValidateInputs ==
    { SignedRequest(w, Alice, Bob, am, fe, d, 0, ChainId, Forwarder) :
        w \in Senders, am \in Amounts, fe \in Fees, d \in 0 .. MaxTime }

\* any balance, allowance, minimum fee and block timestamp
InitValidate ==
    /\ nonces = [a \in Addr |-> 0]
    /\ authorizedRelayers = [a \in Addr |-> FALSE]
    /\ relayerFee \in 0 .. MaxTokens
    /\ \E b \in 0 .. MaxTokens : balances = [a \in Addr |-> IF a = Alice THEN b ELSE 0]
    /\ \E al \in 0 .. MaxTokens : allowances = [a \in Addr |-> IF a = Alice THEN al ELSE 0]
    /\ blockTimestamp \in 0 .. MaxTime
    /\ watched = SignedRequest(Alice, Alice, Bob, 1, 1, MaxTime, 0, ChainId, Forwarder)
    /\ watchedCount = 0
    /\ paid = [a \in Addr |-> 0]
    /\ replayRejected = FALSE
    /\ owner = Deployer
    /\ adminRejected = FALSE
    /\ rolledBack = FALSE
    /\ InitEngine

ValidateStep(r) ==
    \/ GetBlock(r) \/ Fxrp(r) \/ Decimals(r) \/ BalanceOf(r) \/ Allowance(r)
    \/ RelayerFee(r)

NextValidate ==
    \/ \E r \in Requests, req \in ValidateInputs :
          pc[r] = "idle" /\ CallValidateRequest(r, req)
    \/ \E r \in Requests : ValidateStep(r)

SpecValidate == InitValidate /\ [][NextValidate]_vars

\* ------------------------------------------- batches that overdraw a sender
\* what the requests of these batches are drawn from: payments of alice that
\* her balance and allowance cover one at a time, and one that they do not
CumulativeItems ==
    ValidRequests(Alice, {Bob}, {1}, {1}, {MaxTime}, SignedNonces)
        \cup ValidRequests(Alice, {Bob}, {3}, {1}, {MaxTime}, {0})

\* alice holds and has approved 3 tokens: one payment of 1 + 1, not two
InitCumulative ==
    /\ nonces = [a \in Addr |-> 0]
    /\ authorizedRelayers = [a \in Addr |-> FALSE]
    /\ relayerFee = InitialRelayerFee
    /\ balances = [a \in Addr |-> IF a = Alice THEN 3 ELSE 0]
    /\ allowances = [a \in Addr |-> IF a = Alice THEN 3 ELSE 0]
    /\ blockTimestamp = 0
    /\ watched = SignedRequest(Alice, Alice, Bob, 1, 1, MaxTime, 0, ChainId, Forwarder)
    /\ watchedCount = 0
    /\ paid = [a \in Addr |-> 0]
    /\ replayRejected = FALSE
    /\ owner = Deployer
    /\ adminRejected = FALSE
    /\ rolledBack = FALSE
    /\ InitEngine

NextCumulative ==
    \/ \E r \in Requests, requests \in BatchesOf(CumulativeItems) :
          CallExecuteBatchPayments(r, requests)
    \/ \E r \in Requests : ValidateStep(r)
    \/ \E r \in Requests : SendBatch(r)
    \/ \E r \in Requests : WaitBatch(r)
    \/ \E r \in Requests : Mine(r)
    \/ \E value \in {1, 3} : Approve(Alice, value) /\ UNCHANGED engineVars
    \/ MineExecutePayment(watched, Bob) /\ UNCHANGED engineVars

SpecCumulative == InitCumulative /\ [][NextCumulative]_vars

\* ------------------------------------------------------------------ claims
Total(req) == req.amount + req.fee
SignedNonce(req) == req.signature.message.nonce
Stale(req) == nonces[req.from] > SignedNonce(req)
InExecutePayment(r) == mode[r] = "executePayment"
InValidateRequest(r) == mode[r] = "validateRequest"
Returned(r) == Terminal(r) /\ result[r] # "RpcError"

\* C1: in executePayment, if the sender's nonce on the ledger changes at any
\* moment between the dry-run and the sending of the transaction, the request
\* fails with the nonce-changed error and no transaction is submitted.
\* Stated for the steps that follow the dry-run: a request that leaves one of
\* them while the nonce differs from the one the dry-run ran on ends with
\* CounterRaceLost, and sends nothing.
C1_RaceAlwaysDetected ==
    [][\A r \in Requests :
         (/\ InExecutePayment(r)
          /\ pc[r] \in {"recheck", "estimateGas", "send"}
          /\ pc'[r] # pc[r]
          /\ result'[r] # "RpcError"
          /\ nonces[request[r].from] # nonce[r])
         => (result'[r] = "CounterRaceLost" /\ tx'[r] = "none")]_vars

\* C2: for any number of concurrent or repeated submissions of the same signed
\* authorization, through executePayment or executeBatchPayments, by any
\* submitter and in any order, the ledger transfers its funds at most once.
C2_AtMostOnce == watchedCount <= 1

C2_Witness == watchedCount = 1 /\ replayRejected

\* C3: nonces[a] never decreases; it increases by exactly 1 for each executed
\* payment whose sender is a (single or batch item) and is unchanged by every
\* other operation, payments of other senders and reverted calls included.
C3_NonceCountsPayments ==
    [][\A a \in Addr :
         /\ nonces'[a] >= nonces[a]
         /\ nonces'[a] - nonces[a] = paid'[a] - paid[a]]_vars

C3_Witness == paid[Alice] = 2 /\ paid[Bob] = 1 /\ replayRejected

\* C4: once the sender's nonce has advanced past the value an authorization
\* was signed for, no later submission of it executes: the ledger emits no
\* payment for it, a transaction of the relayer carrying it is never included
\* successfully and moves no token, and the relayer's own checks reject it
\* with the signer-mismatch or the nonce-changed error.
C4_StaleNeverExecutes ==
    [][/\ Stale(watched) => watchedCount' = watchedCount
       /\ \A r \in Requests :
            (InExecutePayment(r) /\ pc[r] # "failed" /\ Stale(request[r]))
            => /\ tx'[r] = "success" => tx[r] = "success"
               /\ (tx[r] = "pending" /\ tx'[r] # "pending")
                    => (balances' = balances /\ nonces' = nonces)
               /\ (pc[r] = "verify" /\ pc'[r] # "verify"
                     /\ nonce[r] # SignedNonce(request[r]))
                    => result'[r] \in {"SignerMismatch", "InvalidSignatureFormat"}
               /\ (pc[r] = "recheck" /\ pc'[r] # "recheck")
                    => result'[r] \in {"CounterRaceLost", "RpcError"}
               /\ (pc'[r] = "done" /\ pc[r] # "done") => tx[r] = "success"]_vars

C4_Witness ==
    /\ Stale(watched)
    /\ watchedCount = 0
    /\ \E r \in Requests :
         request[r] = watched /\ pc[r] = "failed" /\ result[r] = "SignerMismatch"

\* C5: the steps of executePayment run strictly in program order; a
\* transaction is submitted only if every earlier step of the request
\* succeeded, and after the first failing step no later step is performed.
C5_InOrder(r) ==
    /\ Len(log[r]) <= Len(StepOrder)
    /\ \A i \in DOMAIN log[r] :
         /\ log[r][i].step = StepOrder[i]
         /\ i < Len(log[r]) => log[r][i].ok
    /\ (log[r] # <<>> /\ ~log[r][Len(log[r])].ok) => pc[r] = "failed"
    /\ tx[r] # "none" =>
         \E i \in DOMAIN log[r] :
            /\ log[r][i].step = "send"
            /\ \A j \in 1 .. i : log[r][j].ok

C5_StrictSequence ==
    [][\A r \in Requests :
         /\ InExecutePayment(r)' => C5_InOrder(r)'
         /\ (InExecutePayment(r) /\ pc[r] = "failed")
              => \/ log'[r] = log[r] /\ (tx'[r] = tx[r] \/ tx[r] = "pending")
                 \/ log'[r] = <<[step |-> "normalize", ok |-> TRUE]>>
                 \/ log'[r] = <<[step |-> "normalize", ok |-> FALSE]>>]_vars

C5_Witness ==
    \E r \in Requests :
       /\ pc[r] = "done" /\ result[r] = "success"
       /\ Len(log[r]) = Len(StepOrder)

\* what the signature check of executePayment answers for request r
Verdict(r) == VerifySignature(normalizedRequest[r], ChainId, Forwarder, nonce[r])

CheckedExpired(r) == Expired(request[r].deadline, chainTime[r])
BalanceShort(r) == balances[request[r].from] < Total(request[r])
AllowanceShort(r) == allowances[request[r].from] < Total(request[r])
Passed(r, step) == \E i \in DOMAIN log[r] : log[r][i].step = step /\ log[r][i].ok
UsedLedgerTime(r) == ~clockFallback[r] => chainTime[r] = blockTimestamp

\* C7 as stated: with balance < amount + fee, validateRequest fails with the
\* insufficient-balance error whatever the deadline, the allowance and the
\* minimum fee are.
C7_BalanceWhateverDeadline ==
    \A r \in Requests :
       (InValidateRequest(r) /\ Returned(r) /\ BalanceShort(r))
       => result[r] = "InsufficientBalance"

\* C7, amended: with balance < amount + fee, validateRequest fails with the
\* request-expired error when its deadline check rejects (the deadline is at
\* or before the latest block's time, or the local clock without a latest
\* block) and with the insufficient-balance error otherwise, whatever the
\* allowance and the minimum fee; with balance >= amount + fee, the boundary
\* balance == amount + fee included, the balance check passes.
C7_BalanceAfterDeadline ==
    \A r \in Requests :
       (InValidateRequest(r) /\ Returned(r))
       => /\ UsedLedgerTime(r)
          /\ BalanceShort(r)
               => result[r] = IF CheckedExpired(r) THEN "RequestExpired"
                              ELSE "InsufficientBalance"
          /\ ~BalanceShort(r)
               => /\ result[r] # "InsufficientBalance"
                  /\ ~CheckedExpired(r) => Passed(r, "balanceOf")

C7_Witness ==
    \E r \in Requests :
       /\ InValidateRequest(r) /\ result[r] = "InsufficientBalance"
       /\ balances[request[r].from] + 1 = Total(request[r])
       /\ AllowanceShort(r) /\ FeeTooLow(request[r].fee, relayerFee)

\* C8 as stated: with allowance < amount + fee, validateRequest fails with
\* the insufficient-allowance error whatever the deadline, the balance and
\* the minimum fee are.
C8_AllowanceWhateverElse ==
    \A r \in Requests :
       (InValidateRequest(r) /\ Returned(r) /\ AllowanceShort(r))
       => result[r] = "InsufficientAllowance"

\* C8, amended: with allowance < amount + fee, validateRequest fails with the
\* request-expired error when its deadline check rejects, else with the
\* insufficient-balance error when balance < amount + fee, and with the
\* insufficient-allowance error otherwise, whatever the minimum fee; with
\* allowance >= amount + fee, the boundary included, the allowance check
\* passes.
C8_AllowanceAfterBalance ==
    \A r \in Requests :
       (InValidateRequest(r) /\ Returned(r))
       => /\ AllowanceShort(r)
               => result[r] = IF CheckedExpired(r) THEN "RequestExpired"
                              ELSE IF BalanceShort(r) THEN "InsufficientBalance"
                              ELSE "InsufficientAllowance"
          /\ ~AllowanceShort(r)
               => /\ result[r] # "InsufficientAllowance"
                  /\ (~CheckedExpired(r) /\ ~BalanceShort(r)) => Passed(r, "allowance")

C8_Witness ==
    \E r \in Requests :
       /\ InValidateRequest(r) /\ result[r] = "InsufficientAllowance"
       /\ allowances[request[r].from] + 1 = Total(request[r])
       /\ FeeTooLow(request[r].fee, relayerFee)

\* C9: validateRequest completes without error if and only if deadline >
\* ledger time, balance >= amount + fee, allowance >= amount + fee and fee >=
\* minimum fee; fee < minimum fee is rejected and fee == minimum fee accepted.
C9_ValidIffAllFour ==
    \A r \in Requests :
       (InValidateRequest(r) /\ Returned(r))
       => (result[r] = "valid"
             <=> /\ request[r].deadline > blockTimestamp
                 /\ balances[request[r].from] >= Total(request[r])
                 /\ allowances[request[r].from] >= Total(request[r])
                 /\ request[r].fee >= relayerFee)

\* C10 as stated: the gas ceiling sent with the transaction satisfies
\* 100 * gasLimit >= 130 * E for every gas estimate E.
C10_AtLeastThirtyPercent ==
    \A r \in Requests :
       gasLimit[r] # None => 100 * gasLimit[r] >= 130 * estimated[r]

\* C10, amended: the gas ceiling sent with the transaction is 1.3 * E rounded
\* down to an integer: 130 * E - 100 < 100 * gasLimit <= 130 * E, so that it
\* reaches 1.3 * E exactly when E is a multiple of 10; and no transaction is
\* sent without it.
C10_FloorOfThirtyPercent ==
    \A r \in Requests :
       /\ gasLimit[r] # None
            => /\ 100 * gasLimit[r] <= 130 * estimated[r]
               /\ 130 * estimated[r] < 100 * gasLimit[r] + 100
       /\ tx[r] # "none" => gasLimit[r] # None

C10_Witness ==
    \E r \in Requests :
       tx[r] = "pending" /\ estimated[r] = 54321 /\ gasLimit[r] = 70617

InBatch(r) == mode[r] = "executeBatchPayments"
Items(r) == {batch[r][i] : i \in DOMAIN batch[r]}
Performed(r, step) == \E i \in DOMAIN log[r] : log[r][i].step = step
Sends(r) == {i \in DOMAIN log[r] : log[r][i].step = "send"}

\* C11: every authorization that executeBatchPayments sends to the ledger
\* has passed signature verification - its signature recovers to the claimed
\* sender under the current domain and the sender's current nonce (counting
\* the earlier items of the batch) - before the batch transaction is sent.
C11_BatchItemsVerified ==
    [][\A r \in Requests :
         (InBatch(r) /\ tx[r] = "none" /\ tx'[r] = "pending")
         => \A i \in DOMAIN batch[r] :
               LET a == batch[r][i]
                   earlier == {j \in 1 .. (i - 1) : batch[r][j].from = a.from}
               IN  VerifySignature(a, ChainId, Forwarder,
                                   nonces[a.from] + Cardinality(earlier)) = "ok"]_vars

\* C12: for a batch of n authorizations executeBatchPayments performs no
\* dry-run and no gas estimation, sends exactly one transaction, whose gas
\* ceiling is n times the per-item allowance of 100000, and on success
\* returns one result with paymentsProcessed = n.
C12_OneTransactionPerBatch ==
    \A r \in Requests :
       InBatch(r)
       => /\ ~Performed(r, "staticCall") /\ ~Performed(r, "estimateGas")
          /\ Cardinality(Sends(r)) <= 1
          /\ tx[r] # "none"
               => /\ Cardinality(Sends(r)) = 1
                  /\ gasLimit[r] = 100000 * Len(batch[r])
          /\ result[r] = "success"
               => /\ tx[r] = "success"
                  /\ out[r].success
                  /\ out[r].paymentsProcessed = Len(batch[r])

C12_Witness ==
    \E r \in Requests :
       /\ InBatch(r) /\ result[r] = "success"
       /\ Len(batch[r]) = MaxBatch
       /\ gasLimit[r] = 100000 * MaxBatch
       /\ out[r].paymentsProcessed = MaxBatch

\* a field of an inbound authorization that cannot be parsed
Malformed(req) ==
    \/ Unparseable(req) \/ ~IsNumber(req.deadline)
    \/ SignatureTooShort(req.signature)

\* C13: whenever a field of an inbound authorization cannot be parsed
\* (address, amount, fee, expiration, or a signature shorter than the
\* minimum length), the call fails with the malformed-request error before
\* any ledger read or write is issued, in executePayment and in
\* executeBatchPayments.
C13_MalformedBeforeAnyRead ==
    \A r \in Requests :
       LET malformed == \/ InExecutePayment(r) /\ Malformed(request[r])
                        \/ InBatch(r) /\ \E a \in Items(r) : Malformed(a)
       IN  malformed
           => /\ \A i \in DOMAIN log[r] : log[r][i].step = "normalize"
              /\ tx[r] = "none"
              /\ Terminal(r) => result[r] = "MalformedRequest"

\* the address the engine recovers for request r under its own domain and
\* the nonce it read
Recovered(r) ==
    LET q == normalizedRequest[r]
    IN  Recover(Domain(ChainId, Forwarder),
                Message(q.from, q.to, q.amount, q.fee, nonce[r], q.deadline),
                q.signature)

Recoverable(r) ==
    /\ ~SignatureUnparseable(normalizedRequest[r].signature)
    /\ IsNumber(normalizedRequest[r].deadline)

\* C14: the signer-mismatch error fires if and only if the address recovered
\* from the signature differs from the claimed sender; an authorization built
\* and signed by the signing utility under the engine's chain id and
\* forwarder address and the sender's current nonce always passes the
\* engine's signature verification.
C14_SignThenVerify ==
    \A r \in Requests :
       (InExecutePayment(r) /\ Performed(r, "verify"))
       => LET q == normalizedRequest[r]
          IN  /\ result[r] = "SignerMismatch"
                   <=> (Recoverable(r) /\ Recovered(r) # q.from)
              /\ (/\ IsAddress(q.from)
                  /\ nonces[q.from] = nonce[r]
                  /\ q = createPaymentRequest(q.from, Forwarder, q.to, q.amount,
                                              q.fee, q.deadline))
                   => Passed(r, "verify")

C14_Witness ==
    \E r \in Requests :
       /\ InExecutePayment(r) /\ Passed(r, "verify") /\ result[r] = "success"
       /\ ~request[r].signature.prefix

\* C15: an authorization signed under another chain id or contract address,
\* or for another nonce than the one the engine reads, is rejected with the
\* signer-mismatch error by the signature verification, before ledger-state
\* validation and before any dry-run, and never with another error or a
\* revert.
C15_MismatchBeforeValidation ==
    \A r \in Requests :
       LET sig == normalizedRequest[r].signature
       IN  (/\ InExecutePayment(r) /\ Performed(r, "verify") /\ Recoverable(r)
            /\ \/ sig.domain # Domain(ChainId, Forwarder)
               \/ sig.message.nonce # nonce[r])
           => /\ result[r] = "SignerMismatch"
              /\ pc[r] = "failed"
              /\ Len(log[r]) = 4
              /\ ~Performed(r, "getBlock") /\ ~Performed(r, "staticCall")
              /\ tx[r] = "none"

C15_Witness ==
    \E r \in Requests :
       /\ InExecutePayment(r) /\ result[r] = "SignerMismatch"
       /\ request[r].signature.domain.chainId = OtherChainId
       /\ request[r].signature.signer = request[r].from

\* C16: executePayment and executeBatchPayments return a result with
\* success = true only after the ledger has included the submitted
\* transaction without revert; when the transaction reverts or the wait
\* fails the call ends in an error; a success result carries a transaction
\* hash and a gasUsed, "0" when the ledger omits it.
C16_SuccessOnlyAfterInclusion ==
    \A r \in Requests :
       /\ out[r].success <=> result[r] \in {"success"}
       /\ result[r] = "success"
            => /\ pc[r] = "done"
               /\ tx[r] = "success"
               /\ out[r].transactionHash = TxHash(r)
               /\ out[r].gasUsed \notin {"omitted", "null"}
       /\ (Terminal(r) /\ tx[r] \in {"pending", "reverted"})
            => (pc[r] = "failed" /\ ~out[r].success)

C16_Witness ==
    \E r \in Requests :
       /\ InExecutePayment(r) /\ result[r] = "success" /\ out[r].gasUsed = "0"
       /\ watchedCount = 1

\* C17: the engine never retries: each call of executePayment or
\* executeBatchPayments submits at most one transaction, and after an error
\* of any kind the engine issues no further ledger write for that request
\* (a request that failed performs no step; the next thing its slot does is
\* a new call).
C17_NoRetry ==
    [][\A r \in Requests :
         /\ Cardinality(Sends(r))' <= 1
         /\ (tx'[r] = "pending" /\ tx[r] # "pending")
              => /\ tx[r] = "none"
                 /\ pc[r] \in {"send", "sendBatch"}
                 /\ Sends(r) = {}
         /\ (pc[r] = "failed" /\ pc'[r] = "failed")
              => \/ /\ log'[r] = log[r]
                    /\ tx'[r] # tx[r] => tx[r] = "pending"
                 \/ /\ log'[r] = <<[step |-> "normalize", ok |-> FALSE]>>
                    /\ tx'[r] = "none"]_vars

C17_Witness ==
    \E r \in Requests :
       /\ InBatch(r) /\ pc[r] = "failed" /\ result[r] = "FinalityWaitFailed"
       /\ tx[r] = "reverted"

\* the failing step of request r, when the provider's error behind it is known
Failure(r) == log[r][Len(log[r])]
Diagnosed(r, steps) ==
    /\ InExecutePayment(r) /\ pc[r] = "failed" /\ log[r] # <<>>
    /\ Failure(r).step \in steps
    /\ "err" \in DOMAIN Failure(r)
DecodingFails(err) == err.data # KnownData
StageOf(step) == IF step = "send" THEN "sendTransaction" ELSE "transaction"

\* C18 as stated: if decoding the error payload fails or the fetch of the
\* submitted transaction fails, the produced error still carries the raw
\* message of the original failure and the kind of the failing stage.
C18_RawMessageKept ==
    \A r \in Requests :
       (/\ Diagnosed(r, {"send", "wait"})
        /\ DecodingFails(Failure(r).err) \/ Failure(r).fetch = "throws")
       => /\ out[r].msg = Raw(Failure(r).err.message)
          /\ out[r].phase = StageOf(Failure(r).step)

\* C18, amended: the diagnosis of a failed send or wait never raises an error
\* of its own: the produced error always names the failing stage (send or
\* await) and a reason taken from the original failure alone. The reason is
\* the raw message of the original failure whenever the failure carries no
\* structured error name and its payload is absent or does not decode;
\* otherwise the structured or decoded error name stands in place of the raw
\* message. A failed fetch of the submitted transaction changes neither: it
\* only leaves out the note on the calldata.
C18_DiagnosisDegrades ==
    \A r \in Requests :
       Diagnosed(r, {"send", "wait"})
       => LET err == Failure(r).err
          IN  /\ ~out[r].success
              /\ out[r].phase = StageOf(Failure(r).step)
              /\ result[r] = IF Failure(r).step = "send" THEN "SubmissionFailed"
                             ELSE "FinalityWaitFailed"
              /\ (err.revertName = "" /\ DecodingFails(err))
                   => out[r].msg = Raw(err.message)
              /\ out[r].msg \in {Raw(err.message), ContractReverted(err.revertName),
                                 ContractReverted("ExpiredRequest")}
              /\ Failure(r).fetch = "throws" <=>
                   (Failure(r).step = "wait" /\ out[r].note = "")

C18_Witness ==
    \E r \in Requests :
       /\ Diagnosed(r, {"wait"})
       /\ Failure(r).fetch = "throws"
       /\ Failure(r).err.revertName = "" /\ Failure(r).err.data = UnknownData
       /\ out[r].msg = Raw(RawMessage)
       /\ tx[r] = "reverted"

\* the reason the precedence asks for
Precedence(err) ==
    IF err.revertName # "" THEN ContractReverted(err.revertName)
    ELSE IF err.data = KnownData THEN ContractReverted("ExpiredRequest")
    ELSE Raw(err.message)

\* C19: at every failing edge that is diagnosed (dry-run, submit, await) the
\* reported reason is the structured error name the failure carries; else the
\* error name decoded from the raw payload when it decodes against the
\* contract's errors; else the raw message.
C19_ReasonPrecedence ==
    \A r \in Requests :
       Diagnosed(r, {"staticCall", "send", "wait"})
       => out[r].msg = Precedence(Failure(r).err)

\* C20: the expiry decision of validateRequest depends only on the ledger's
\* time and the deadline, never on the local clock, for every answer of the
\* ledger, a missing latest block included: once the latest block was asked
\* for, the request is found expired exactly when deadline <= ledger time.
C20_ExpiryByLedgerTimeOnly ==
    \A r \in Requests :
       (InValidateRequest(r) /\ chainTime[r] # None)
       => (Passed(r, "getBlock") <=> request[r].deadline > blockTimestamp)

\* the token balance of x after a payment of authorization a submitted by
\* `caller`, and the total supply
BalanceAfter(a, caller, x) ==
    balances[x] - (IF x = a.from THEN a.amount + a.fee ELSE 0)
                + (IF x = a.to THEN a.amount ELSE 0)
                + (IF x = caller THEN a.fee ELSE 0)
Supply(b) == b[Alice] + b[Bob] + b[RelayerWallet]
Succeeds(a, caller) ==
    executePayment(LedgerState, a.from, a.to, a.amount, a.fee, a.deadline,
                   a.signature, caller, blockTimestamp).ok

\* C22: on every successful executePayment on the ledger the sender's token
\* balance decreases by exactly amount + fee, the recipient receives exactly
\* amount, the caller (msg.sender) receives exactly fee and the total supply
\* is unchanged, also with fee = 0 and when sender, recipient and caller
\* coincide.
C22_ExactTransfer ==
    [][\A a \in ContractRequests, caller \in Callers :
         (/\ nonces'[a.from] # nonces[a.from]
          /\ Succeeds(a, caller)
          /\ MineExecutePayment(a, caller))
         => /\ \A x \in Addr : balances'[x] = BalanceAfter(a, caller, x)
            /\ Supply(balances') = Supply(balances)
            /\ paid'[a.from] = paid[a.from] + 1]_vars

\* Alice's payment without a fee has run, and so has a payment of Bob to
\* himself that Bob submitted
C22_Witness ==
    /\ watchedCount = 1 /\ paid[Alice] = 1 /\ paid[Bob] = 1
    /\ balances[Alice] = 2 /\ balances[Bob] = 3 /\ balances[RelayerWallet] = 0

\* the reads of the ledger executePayment makes before its dry-run
ReadSteps ==
    {"getNetwork", "getNonce", "getBlock", "fxrp", "decimals", "balanceOf",
     "allowance", "relayerFee"}
Leaves(r, step) == pc[r] = step /\ pc'[r] # step /\ result'[r] # "RpcError"
Passes(r, step, next) == pc[r] = step /\ pc'[r] = next

\* C21: the engine keeps no value read from the ledger across requests. A
\* new call starts without any such value; every call that reaches the
\* dry-run has itself read the network id, the nonce, the ledger time, the
\* token address, the decimals, the balance, the allowance and the minimum
\* fee; each check decides on the value the ledger holds when the check
\* reads it, so that a change made between two requests is seen by the
\* second; and no step changes the engine's own fields.
C21_FreshReads ==
    [][\A r \in Requests :
         LET q == normalizedRequest[r]
         IN  /\ config' = config
             /\ (Terminal(r) /\ ~Terminal(r)')
                  => /\ nonce'[r] = None /\ chainTime'[r] = None
                     /\ estimated'[r] = None /\ gasLimit'[r] = None
                     /\ Len(log'[r]) = 1
             /\ (InExecutePayment(r) /\ pc[r] = "staticCall")
                  => \A step \in ReadSteps : Passed(r, step)
             /\ Passes(r, "getNonce", "verify") => nonce'[r] = nonces[q.from]
             /\ (Leaves(r, "getBlock") /\ ~clockFallback'[r])
                  => /\ chainTime'[r] = blockTimestamp
                     /\ Passes(r, "getBlock", "fxrp") <=> q.deadline > blockTimestamp
             /\ Leaves(r, "balanceOf")
                  => (Passes(r, "balanceOf", "allowance")
                        <=> balances[q.from] >= Total(q))
             /\ Leaves(r, "allowance")
                  => (Passes(r, "allowance", "relayerFee")
                        <=> allowances[q.from] >= Total(q))
             /\ Leaves(r, "relayerFee")
                  => (Passes(r, "relayerFee", "staticCall") <=> q.fee >= relayerFee)
             /\ Leaves(r, "recheck")
                  => (Passes(r, "recheck", "estimateGas")
                        <=> nonces[q.from] = nonce[r])]_vars

\* a first request was executed, the owner then raised the minimum fee, and
\* a second request with the fee the first one had is rejected for it, after
\* it read the nonce the first one left
C21_Witness ==
    \E r \in Requests :
       /\ InExecutePayment(r) /\ result[r] = "FeeTooLow"
       /\ paid[Alice] = 1 /\ nonce[r] = 1
       /\ request[r].fee = InitialRelayerFee /\ relayerFee > InitialRelayerFee

\* C23: only the owner of the contract can change relayerFee
\* (setRelayerFee) or the authorization flag of a relayer
\* (setRelayerAuthorization): a call of either by another address reverts
\* and leaves relayerFee, authorizedRelayers and all nonces unchanged, and
\* whenever one of the two changes, the step is the owner's call.
C23_OwnerOnly ==
    [][/\ \A caller \in AdminCallers :
            caller # owner
            => /\ \A fee \in FeeSettings :
                    setRelayerFee(caller, fee)
                    => /\ relayerFee' = relayerFee
                       /\ authorizedRelayers' = authorizedRelayers
                       /\ nonces' = nonces /\ adminRejected'
               /\ \A relayer \in Addr, authorized \in BOOLEAN :
                    setRelayerAuthorization(caller, relayer, authorized)
                    => /\ relayerFee' = relayerFee
                       /\ authorizedRelayers' = authorizedRelayers
                       /\ nonces' = nonces /\ adminRejected'
       /\ relayerFee' # relayerFee
            => setRelayerFee(owner, relayerFee')
       /\ authorizedRelayers' # authorizedRelayers
            => \E relayer \in Addr :
                  setRelayerAuthorization(owner, relayer, authorizedRelayers'[relayer])]_vars

\* the deployer, still the owner, has raised the fee and authorized the
\* relayer, and a call of an owner function by Bob was reverted
C23_Witness ==
    /\ owner = Deployer /\ adminRejected
    /\ relayerFee > InitialRelayerFee /\ authorizedRelayers[RelayerWallet]

\* where in the log of request r the step `step` stands
IndexOf(r, step) == CHOOSE i \in DOMAIN log[r] : log[r][i].step = step
NonceReads(r) == {i \in DOMAIN log[r] : log[r][i].step \in {"getNonce", "recheck"}}
ReachedSend(r) == InExecutePayment(r) /\ Performed(r, "send")

\* the part of C24 on the number, the places and the values of the reads
C24_TwoReads ==
    \A r \in Requests :
       ReachedSend(r)
       => /\ Cardinality(NonceReads(r)) = 2
          /\ Passed(r, "getNonce") /\ Passed(r, "recheck")
          /\ IndexOf(r, "getNonce") < IndexOf(r, "verify")
          /\ IndexOf(r, "staticCall") < IndexOf(r, "recheck")

\* C24: in every executePayment that reaches the send, the sender's nonce
\* was read exactly twice, first before the signature verification and then
\* after the dry-run, both reads gave the same value, and no other step of
\* the engine lies between the second read and the send.
C24_RecheckRightBeforeSend ==
    \A r \in Requests :
       ReachedSend(r)
       => /\ C24_TwoReads
          /\ IndexOf(r, "send") = IndexOf(r, "recheck") + 1

\* the contract calls request r has made, by their place in its log
ContractCalls(r) == {i \in DOMAIN log[r] : "args" \in DOMAIN log[r][i]}
Running(r) == pc[r] # "idle" /\ ~Terminal(r)

\* C25: the dry-run, the gas estimate and the submitted transaction of one
\* executePayment all carry the same arguments (from, to, amount, fee,
\* deadline, signature), which are the normalized copy of the inbound
\* request, and the inbound request is never changed while the call runs.
C25_SameArguments ==
    [][\A r \in Requests :
         InExecutePayment(r)
         => /\ \A i \in ContractCalls(r) :
                 /\ log[r][i].step \in {"staticCall", "estimateGas", "send"}
                 /\ log[r][i].args = Normalize(request[r])
            /\ \A step \in {"staticCall", "estimateGas", "send"} :
                 Passed(r, step) => \E i \in ContractCalls(r) : log[r][i].step = step
            /\ Running(r) => request'[r] = request[r]
            /\ (tx[r] = "pending" /\ tx'[r] = "success")
                 => /\ Execute(Normalize(request[r])).ok
                    /\ nonces' = Execute(Normalize(request[r])).nonces]_vars

\* a request whose signature came without the 0x prefix was executed with
\* the prefixed signature in all three calls
C25_Witness ==
    \E r \in Requests :
       /\ InExecutePayment(r) /\ tx[r] = "success"
       /\ ~request[r].signature.prefix
       /\ Cardinality(ContractCalls(r)) = 3
       /\ Submitted(r).signature.prefix

\* C26: when the wait fails, the diagnosis attaches the 'no calldata -
\* relayer bug' marker exactly when the transaction fetched by its hash has
\* empty data, and the calldata length exactly when the fetched data is not
\* empty; a transaction that cannot be found is not reported as a defect of
\* the engine.
C26_MarkerOnlyForEmptyData ==
    \A r \in Requests :
       Diagnosed(r, {"wait"})
       => /\ out[r].note = "TX had no calldata" <=> Failure(r).fetch = "empty"
          /\ out[r].note = "calldata length" <=> Failure(r).fetch = "calldata"
          /\ Failure(r).fetch = "null" => out[r].note # "TX had no calldata"

\* the part of C26 that does not concern a transaction that is not found
C26_MarkerUnlessNotFound ==
    \A r \in Requests :
       (Diagnosed(r, {"wait"}) /\ Failure(r).fetch # "null")
       => /\ out[r].note = "TX had no calldata" <=> Failure(r).fetch = "empty"
          /\ out[r].note = "calldata length" <=> Failure(r).fetch = "calldata"

\* the failed steps in the log of request r
FailedSteps(r) == {i \in DOMAIN log[r] : ~log[r][i].ok}

\* a request in flight can always take its next step, whatever the other
\* requests are doing, and a request that ended has one outcome: a success
\* result, or the error of its one failed step
C27_NeverBlocked ==
    \A r \in Slots :
       /\ Running(r) => ENABLED EngineStep(r)
       /\ pc[r] = "done" => (out[r].success /\ FailedSteps(r) = {})
       /\ pc[r] = "failed"
            => (~out[r].success /\ FailedSteps(r) = {Len(log[r])})

\* C27: every executePayment request eventually reaches a terminal outcome
\* (a success result or exactly one error), provided each ledger call it
\* makes eventually returns or fails; the engine neither waits nor loops
\* between steps, and requests in flight together never block one another.
C27_Terminates ==
    /\ []C27_NeverBlocked
    /\ \A r \in Slots : Running(r) ~> Terminal(r)

\* one request has ended in success while the other, for the same sender, is
\* still waiting for its transaction
C27_Witness ==
    /\ pc["r1"] = "done" /\ result["r1"] = "success"
    /\ pc["r2"] = "wait" /\ tx["r2"] = "pending"

\* whether every item of a batch runs when the items are executed in turn
AllItemsRun(requests, caller) ==
    BatchLoop(LedgerState, requests, 1, caller, blockTimestamp).ok
Moved == nonces' # nonces \/ balances' # balances \/ paid' # paid

\* C28: execution on the ledger is atomic: an executePayment call that
\* reverts leaves every nonce and every token balance unchanged, and an
\* executeBatchPayments call in which an item fails reverts as a whole, so
\* that no item of it advances a nonce or moves tokens. Stated on the mined
\* calls: one that advances a nonce or moves tokens has not reverted, and
\* every item of it has run.
C28_Atomic ==
    [][/\ \A a \in ContractRequests, caller \in Callers :
            (Moved /\ MineExecutePayment(a, caller)) => Succeeds(a, caller)
       /\ \A requests \in BatchesOf(ContractBatchItems) :
            (Moved /\ MineExecuteBatch(requests, RelayerWallet))
            => AllItemsRun(requests, RelayerWallet)]_vars

\* a batch was reverted after one of its items had run, and a replay of the
\* observed payment was reverted: the sender has paid exactly once
C28_Witness ==
    /\ rolledBack /\ replayRejected
    /\ nonces[Alice] = 1 /\ paid[Alice] = 1 /\ watchedCount = 1

\* request r has passed validateRequest, and its signature passes the
\* engine's verification, on the ledger state as it is
EnginePasses(r) ==
    /\ InValidateRequest(r) /\ result[r] = "valid"
    /\ VerifySignature(request[r], ChainId, config.forwarderAddress,
                       nonces[request[r].from]) = "ok"

\* C29: if an authorization passes the engine's signature verification and
\* validateRequest against a ledger state, the contract's executePayment of
\* that authorization in the same state at the same ledger time does not
\* revert.
C29_EngineImpliesContract ==
    \A r \in Requests : EnginePasses(r) => Execute(request[r]).ok

\* the same, for the requests whose expiry was decided on the ledger's time
C29_UnlessLocalClock ==
    \A r \in Requests :
       (EnginePasses(r) /\ ~clockFallback[r]) => Execute(request[r]).ok

\* ledger states that differ from the present one in authorizedRelayers and
\* relayerFee only
Alternatives ==
    { [LedgerState EXCEPT !.authorizedRelayers = [a \in Addr |-> authorized],
                          !.relayerFee = fee] :
        authorized \in BOOLEAN, fee \in {0, MaxTokens} }
SameOutcome(x, y) ==
    /\ x.ok = y.ok /\ x.err = y.err /\ x.nonces = y.nonces
    /\ x.balances = y.balances /\ x.allowances = y.allowances
    /\ x.events = y.events

Overdrawn(requests) ==
    /\ Len(requests) >= 2
    /\ \A i \in DOMAIN requests :
          /\ requests[i].from = requests[1].from
          /\ Total(requests[i]) <= balances[requests[1].from]
          /\ Total(requests[i]) <= allowances[requests[1].from]
    /\ Total(requests[1]) + Total(requests[2]) > balances[requests[1].from]
    /\ Total(requests[1]) + Total(requests[2]) > allowances[requests[1].from]

\* the step of request r is the balance or the allowance check of an item of
\* a batch
ChecksItem(r, step) ==
    /\ mode[r] = "executeBatchPayments"
    /\ pc[r] = step
    /\ Len(log'[r]) = Len(log[r]) + 1
    /\ result'[r] # "RpcError"

\* C31: executeBatchPayments validates each item against the sender's
\* balance and allowance independently, not cumulatively: the balance check
\* of an item fails exactly when amount + fee of that item alone exceeds the
\* balance the ledger holds at the read, the allowance check exactly when it
\* alone exceeds the allowance, whatever the items before it take; so a batch
\* of two items of one sender, each within balance and allowance and together
\* exceeding them, passes validation and is submitted.
C31_ItemsValidatedAlone ==
    [][\A r \in Requests :
          LET req == normalizedRequest[r]
          IN  /\ ChecksItem(r, "balanceOf") =>
                    /\ req = batch[r][item[r]]
                    /\ (result'[r] = "InsufficientBalance")
                          <=> (Total(req) > balances[req.from])
                    /\ (pc'[r] = "allowance") <=> (Total(req) <= balances[req.from])
              /\ ChecksItem(r, "allowance") =>
                    /\ req = batch[r][item[r]]
                    /\ (result'[r] = "InsufficientAllowance")
                          <=> (Total(req) > allowances[req.from])
                    /\ (pc'[r] = "relayerFee")
                          <=> (Total(req) <= allowances[req.from])]_vars

\* a batch of two payments of alice, each within her balance and allowance
\* and together exceeding both, has passed the validation of both items and
\* its transaction is sent
C31_Witness ==
    \E r \in Requests :
       /\ mode[r] = "executeBatchPayments"
       /\ Overdrawn(batch[r])
       /\ item[r] = Len(batch[r])
       /\ tx[r] = "pending"
       /\ log[r][Len(log[r])] = [step |-> "send", ok |-> TRUE]

====
